------------------------------- MODULE MCData -------------------------------
(***************************************************************************)
(* The data structures and the algorithms of a machine for TLC.  The       *)
(* specifications share no variable: a behaviour is one of one of them,    *)
(* and the variables of the others stay as they are.                       *)
(***************************************************************************)
EXTENDS Dictionary, AtomTable, MemoryManager, Unify, Replication, Arithmetic, Utf, Pickle

CONSTANT FirstBlock
ASSUME FirstBlockAssumption == FirstBlock \in Blocks

VARIABLE part

Parts == {"dictionary", "atoms", "memory", "unify", "replication", "arithmetic", "utf", "pickle"}

Smallest(S) == CHOOSE x \in S : \A y \in S : x <= y

\* What the variables of a part are when it takes no step.
Idle(p) ==
    CASE p = "memory" -> MemoryOf(FirstBlock, Smallest(HeapSizes))
      [] p = "unify" -> UnifyOf(Task("equals", TRUE, [n \in StoreNodes |-> Value("a")], {}))
      [] p = "replication" ->
            ReplicationOf(Job("collect", [n \in 1..Sources |-> Content("small", << >>)], {}, Null))
      [] p = "utf" -> UtfOf("utf8", << >>)
      [] p = "pickle" -> PickleOf(<<PickleNode("value", "", << >>)>>, << >>)

Init ==
    /\ part \in Parts
    /\ DictionaryInit /\ AtomTableInit /\ ArithmeticInit
    /\ IF part = "memory" THEN MemoryInit ELSE Idle("memory")
    /\ IF part = "unify" THEN UnifyInit ELSE Idle("unify")
    /\ IF part = "replication" THEN ReplicationInit ELSE Idle("replication")
    /\ IF part = "utf" THEN UtfInit ELSE Idle("utf")
    /\ IF part = "pickle" THEN PickleInit ELSE Idle("pickle")

Next ==
    /\ \/ part = "dictionary" /\ DictionaryNext
       \/ part = "atoms" /\ AtomTableNext
       \/ part = "memory" /\ MemoryNext
       \/ part = "unify" /\ UnifyNext
       \/ part = "replication" /\ ReplicationNext
       \/ part = "arithmetic" /\ ArithmeticNext
       \/ part = "utf" /\ UtfNext
       \/ part = "pickle" /\ PickleNext
    /\ UNCHANGED part
    /\ part # "dictionary" => UNCHANGED dictionaryVars
    /\ part # "atoms" => UNCHANGED atomTableVars
    /\ part # "memory" => UNCHANGED memoryVars
    /\ part # "unify" => UNCHANGED unifyVars
    /\ part # "replication" => UNCHANGED replicationVars
    /\ part # "arithmetic" => UNCHANGED arithmeticVars
    /\ part # "utf" => UNCHANGED utfVars
    /\ part # "pickle" => UNCHANGED pickleVars

Spec ==
    Init /\ [][Next]_<<part, dictionaryVars, atomTableVars, memoryVars, unifyVars,
                      replicationVars, arithmeticVars, utfVars, pickleVars>>

=============================================================================
