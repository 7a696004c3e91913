------------------------------ MODULE AtomTable ------------------------------
(***************************************************************************)
(* AtomTable (atomtable.hh): atoms are interned in a crit-bit tree, so that*)
(* two atoms are equal when they are the same object.                      *)
(*                                                                         *)
(* An atom is both a string and an inner node of the tree, at the bit where*)
(* its string first differed from the ones that were there.  A string goes *)
(* on for ever, with characters that are all ones; a character of an atom  *)
(* is never all ones, which is no byte of UTF-8.  Atoms are numbered in the*)
(* order in which they were created.  Characters have CharBits bits        *)
(* instead of 8.                                                           *)
(***************************************************************************)
EXTENDS Naturals, Sequences, FiniteSets

CONSTANTS
    CharBits,    \* bits of a character
    MaxLength,   \* bound on the length of a string
    MaxAtoms     \* bound on the number of strings asked for

ASSUME AtomTableAssumption ==
    CharBits \in Nat \ {0} /\ MaxLength \in Nat /\ MaxAtoms \in Nat

\* A character is its bits, the least significant one first.
Bits == 0..(CharBits - 1)
AllOnes == [i \in Bits |-> 1]
Characters == [Bits -> {0, 1}] \ {AllOnes}

Strings == UNION {[1..n -> Characters] : n \in 0..MaxLength}

VARIABLES
    atoms,   \* the atoms, each with its string, its crit bit and its two sides
    root,    \* 0 when there is none
    asked    \* the strings asked for, for the property

atomTableVars == <<atoms, root, asked>>

Size(s) == Len(s) * CharBits

\* charAt
CharAt(s, i) == IF i >= Len(s) THEN AllOnes ELSE s[i + 1]

\* bitAt
BitAt(s, pos) == CharAt(s, pos \div CharBits)[pos % CharBits]

\* Fault: the last bit of the range is left out.
FirstMismatchShort(s1, s2, start, stop) ==
    LET those == {f \in start..(stop - 2) : BitAt(s1, f) # BitAt(s2, f)}
    IN IF start >= stop \/ those = {} THEN stop
       ELSE CHOOSE f \in those : \A g \in those : f <= g

\* firstMismatch, which looks at whole characters, and so beyond stop; its
\* caller only asks whether there is one before stop.
FirstMismatch(s1, s2, start, stop) ==
    LET those == {f \in start..(stop - 1) : BitAt(s1, f) # BitAt(s2, f)}
    IN IF start >= stop \/ those = {} THEN stop
       ELSE CHOOSE f \in those : \A g \in those : f <= g

\* AtomImpl::AtomImpl: side d leads to the atom itself, the other one to `other`.
NewAtom(s, critBit, d, other) ==
    LET self == Len(atoms) + 1
    IN [data |-> s, critBit |-> critBit,
        side |-> [b \in {0, 1} |-> IF b = d THEN self ELSE other]]

\* The walk of getInternal is at a link, side b of atom `from` (the root when
\* from = 0), which leads to atom cur.  An atom whose crit bit has been passed is
\* a candidate: the walk has come to it from below, and compares it to its end.
IsCandidate(w) == atoms[w.cur].critBit < w.nextToCheck

CheckEnd(w) ==
    IF IsCandidate(w) THEN Size(atoms[w.cur].data) + 2 * CharBits ELSE atoms[w.cur].critBit

Mismatch(s, w) == FirstMismatch(s, atoms[w.cur].data, w.nextToCheck, CheckEnd(w))

Differs(s, w) == Mismatch(s, w) < CheckEnd(w)

\* One turn of the loop.  The walk stays where it returns.
Turn(s, w) ==
    LET c == atoms[w.cur].critBit
        d == BitAt(s, c)
    IN IF Differs(s, w) \/ IsCandidate(w) THEN w
       ELSE [from |-> w.cur, b |-> d, cur |-> atoms[w.cur].side[d], nextToCheck |-> c + 1]

\* No walk makes more turns: nextToCheck grows, and no crit bit is beyond.
LastBit == (MaxLength + 2) * CharBits

WalkFromRoot(s) ==
    LET walk[n \in 0..LastBit] ==
            IF n = 0 THEN [from |-> 0, b |-> 0, cur |-> root, nextToCheck |-> 0]
            ELSE Turn(s, walk[n - 1])
    IN walk[LastBit]

\* getInternal, by get and getUniqueName
GetInternal(s) ==
    /\ Cardinality(asked \cup {s}) <= MaxAtoms
    /\ asked' = asked \cup {s}
    /\ \/ /\ root = 0
          /\ atoms' = <<NewAtom(s, Size(s) + CharBits, 1, 0)>>
          /\ root' = 1
       \/ /\ root # 0
          /\ LET w == WalkFromRoot(s)
                 f == Mismatch(s, w)
                 new == NewAtom(s, f, BitAt(s, f), w.cur)
                 n == Len(atoms) + 1
             IN \/ /\ ~Differs(s, w)
                   /\ UNCHANGED <<atoms, root>>
                \/ /\ Differs(s, w) /\ w.from = 0
                   /\ atoms' = Append(atoms, new)
                   /\ root' = n
                \/ /\ Differs(s, w) /\ w.from # 0
                   /\ atoms' = Append([atoms EXCEPT ![w.from].side[w.b] = n], new)
                   /\ UNCHANGED root

AtomTableInit == atoms = << >> /\ root = 0 /\ asked = {}

AtomTableNext == \E s \in Strings : GetInternal(s)

AtomTableSpec == AtomTableInit /\ [][AtomTableNext]_atomTableVars

-----------------------------------------------------------------------------
\* In whatever order strings are asked for, each has one atom, and asking again
\* finds it: atoms are equal when their strings are, and count() is the number
\* of different strings (atomtable.hh, basic_atom_t::equals).
AtomsAreInterned ==
    /\ Len(atoms) = Cardinality(asked)
    /\ \A s \in asked :
          LET w == WalkFromRoot(s)
          IN ~Differs(s, w) /\ atoms[w.cur].data = s

=============================================================================
