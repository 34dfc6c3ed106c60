-------------------------- MODULE SelectionProofs --------------------------
(***************************************************************************)
(* What the choice of a server block returns, for any configuration.       *)
(***************************************************************************)
EXTENDS Selection, WellFoundedInduction, TLAPS

(* The first block of a set of blocks is one of them, and none is before.  *)
LEMMA FirstIsFirst ==
  ASSUME NEW S, S \subseteq Nat, S # {}
  PROVE  First(S) \in S /\ \A j \in S : First(S) <= j
<1>1. PICK i \in S : \A j \in S : <<j, i>> \notin OpToRel(<, Nat)
  BY NatLessThanWellFounded, WFMin, Zenon
<1>2. \A a, b \in Nat : a < b => <<a, b>> \in OpToRel(<, Nat)
  <2>1. \A a, b \in Nat : a < b => <<a, b>> \in {ss \in Nat \X Nat : ss[1] < ss[2]}
    OBVIOUS
  <2> QED BY <2>1, Zenon DEF OpToRel
<1>3. \A j \in S : ~(j < i)
  <2>1. i \in Nat /\ \A j \in S : j \in Nat
    OBVIOUS
  <2> QED BY <1>1, <1>2, <2>1, Zenon
<1>4. \A j \in S : i <= j
  BY <1>3
<1> QED BY <1>4, Zenon DEF First

(* SelectServer returns a block at the address that has the name, if there *)
(* is one, and otherwise some block at the address, if there is one ...    *)
LEMMA SelectServerMatches ==
  ASSUME NEW blocks, Len(blocks) \in Nat, NEW addr, NEW host
  PROVE  LET matching == {i \in 1..Len(blocks) : Matches(blocks[i], addr)}
             named    == {i \in matching : blocks[i].name = host}
             s        == SelectServer(blocks, addr, host)
         IN  (named # {} => s \in named) /\ (matching # {} => s \in matching)
<1> DEFINE matching == {i \in 1..Len(blocks) : Matches(blocks[i], addr)}
           named    == {i \in matching : blocks[i].name = host}
           s        == SelectServer(blocks, addr, host)
<1>1. matching \subseteq Nat /\ named \subseteq Nat /\ named \subseteq matching
  OBVIOUS
<1>2. s = CASE named # {}                   -> First(named)
            [] named = {} /\ matching # {}  -> First(matching)
            [] OTHER                        -> 1
  BY Zenon DEF SelectServer
<1> HIDE DEF matching, named, s
<1>3. named # {} => s = First(named) /\ First(named) \in named
  BY <1>1, <1>2, FirstIsFirst
<1>4. named = {} /\ matching # {} => s = First(matching) /\ First(matching) \in matching
  BY <1>1, <1>2, FirstIsFirst
<1>5. (named # {} => s \in named) /\ (matching # {} => s \in matching)
  BY <1>1, <1>3, <1>4
<1> QED BY <1>5 DEF matching, named, s

(* ... namely the first; without any block at the address the first of all.*)
LEMMA SelectServerDefault ==
  ASSUME NEW blocks, NEW addr, NEW host,
         ~\E i \in 1..Len(blocks) : Matches(blocks[i], addr) /\ blocks[i].name = host
  PROVE  LET matching == {i \in 1..Len(blocks) : Matches(blocks[i], addr)}
         IN  SelectServer(blocks, addr, host) =
               IF matching # {} THEN First(matching) ELSE 1
<1> DEFINE matching == {i \in 1..Len(blocks) : Matches(blocks[i], addr)}
           named    == {i \in matching : blocks[i].name = host}
           s        == SelectServer(blocks, addr, host)
<1>1. s = CASE named # {}                   -> First(named)
            [] named = {} /\ matching # {}  -> First(matching)
            [] OTHER                        -> 1
  BY Zenon DEF SelectServer
<1>2. named = {}
  OBVIOUS
<1> HIDE DEF matching, named, s
<1>3. s = IF matching # {} THEN First(matching) ELSE 1
  BY <1>1, <1>2
<1> QED BY <1>3 DEF matching, s
=============================================================================
