--------------------------- MODULE PeerOrderProofs ---------------------------
(***************************************************************************)
(* What a rotation keeps of the list it rotates, and what a counter that is *)
(* advanced with every rotation says of whose turn it was, for every list   *)
(* and every start.                                                         *)
(***************************************************************************)
EXTENDS PeerOrder, TLAPS

(* What a rotation of a discovered peer list is: as long as the list, and   *)
(* without repetition when the list has none.                               *)
LEMMA RotationIsInjective ==
  ASSUME NEW S, NEW s \in Seq(S), s # <<>>, NoRepeats(s), NEW k \in 0..(Len(s) - 1)
  PROVE  /\ RotateFrom(s, k) \in Seq(S)
         /\ Len(RotateFrom(s, k)) = Len(s)
         /\ NoRepeats(RotateFrom(s, k))
<1> DEFINE at(i) == IF i + k <= Len(s) THEN i + k ELSE i + k - Len(s)
<1>1. Len(s) \in Nat \ {0}
  OBVIOUS
<1>2. \A i \in 1..Len(s) : at(i) \in 1..Len(s)
  BY <1>1
<1>3. \A i, j \in 1..Len(s) : at(i) = at(j) => i = j
  BY <1>1
<1>4. RotateFrom(s, k) = [i \in 1..Len(s) |-> s[at(i)]]
  BY DEF RotateFrom
<1> HIDE DEF at
<1>5. \A i \in 1..Len(s) : s[at(i)] \in S
  BY <1>2
<1>6. RotateFrom(s, k) \in Seq(S) /\ Len(RotateFrom(s, k)) = Len(s)
  BY <1>1, <1>4, <1>5
<1>7. DOMAIN RotateFrom(s, k) = 1..Len(s) /\ DOMAIN s = 1..Len(s)
  BY <1>4
<1>8. NoRepeats(RotateFrom(s, k))
  BY <1>2, <1>3, <1>4, <1>7 DEF NoRepeats
<1> QED
  BY <1>6, <1>8

-----------------------------------------------------------------------------
(* Turns.  A counter that is k says that the first k peers of its list had  *)
(* one turn more than the others; the last peer is never among them.        *)
Lap(count, turn, s, lap) ==
  \A i \in 1..Len(s) : turn[s[i]] = IF i <= count THEN lap + 1 ELSE lap

InLap(count, turn, s) ==
  /\ count \in 0..(Len(s) - 1)
  /\ Lap(count, turn, s, turn[s[Len(s)]])

(* A new counter, and a list no call began with yet.                        *)
LEMMA FreshTurnsAreInLap ==
  ASSUME NEW S, NEW s \in Seq(S), s # <<>>
  PROVE  InLap(0, [p \in S |-> 0], s)
<1>1. Len(s) \in Nat \ {0} /\ \A i \in 1..Len(s) : s[i] \in S
  OBVIOUS
<1> QED
  BY <1>1 DEF InLap, Lap

(* A remainder is the index of a peer, from zero.                           *)
LEMMA RemainderIsIndex ==
  ASSUME NEW n \in Nat \ {0}, NEW k \in Nat
  PROVE  k % n \in 0..(n - 1)
OBVIOUS

(* A counter below n is itself modulo n, and n starts again at zero.        *)
LEMMA CounterIsModular ==
  ASSUME NEW n \in Nat \ {0}, NEW k \in 0..(n - 1)
  PROVE  k % n = k /\ (k + 1 < n => (k + 1) % n = k + 1) /\ n % n = 0
OBVIOUS

(* The peer that begins is the one after those that had their turn.         *)
LEMMA NextTurnIsInLap ==
  ASSUME NEW S, NEW s \in Seq(S), s # <<>>, NoRepeats(s),
         NEW turn \in [S -> Nat], NEW k \in Nat, InLap(k, turn, s),
         NEW first, first = RotateFrom(s, k % Len(s))[1]
  PROVE  /\ first \in S
         /\ InLap((k + 1) % Len(s), [turn EXCEPT ![first] = @ + 1], s)
<1>1. Len(s) \in Nat \ {0} /\ k \in 0..(Len(s) - 1)
  BY DEF InLap
<1>2. k % Len(s) = k /\ (k + 1 < Len(s) => (k + 1) % Len(s) = k + 1) /\ Len(s) % Len(s) = 0
  BY <1>1, CounterIsModular
<1>3. first = s[k + 1] /\ first \in S
  BY <1>1, <1>2 DEF RotateFrom
<1>4. PICK lap \in Nat : lap = turn[s[Len(s)]] /\ Lap(k, turn, s, lap)
  BY <1>1 DEF InLap
<1> DEFINE new == [turn EXCEPT ![first] = @ + 1]
<1>5. ASSUME NEW i \in 1..Len(s)
      PROVE  new[s[i]] = IF i <= k + 1 THEN lap + 1 ELSE lap
  <2>1. turn[s[i]] = IF i <= k THEN lap + 1 ELSE lap
    BY <1>4 DEF Lap
  <2>2. s[i] \in S /\ (s[i] = first <=> i = k + 1)
    BY <1>1, <1>3 DEF NoRepeats
  <2>3. new[s[i]] = IF i = k + 1 THEN turn[s[i]] + 1 ELSE turn[s[i]]
    BY <2>2
  <2> QED
    BY <1>1, <2>1, <2>3
<1> HIDE DEF new
<1>6. PICK next : next = (k + 1) % Len(s)
  OBVIOUS
<1>7. InLap(next, new, s)
  <2>1. CASE k + 1 < Len(s)
    <3>1. next = k + 1
      BY <1>2, <1>6, <2>1
    <3>2. Lap(next, new, s, lap) /\ new[s[Len(s)]] = lap
      BY <1>1, <1>5, <2>1, <3>1 DEF Lap
    <3> QED
      BY <1>1, <2>1, <3>1, <3>2 DEF InLap
  <2>2. CASE k + 1 = Len(s)
    <3>1. next = 0
      BY <1>2, <1>6, <2>2
    <3>2. Lap(next, new, s, lap + 1) /\ new[s[Len(s)]] = lap + 1
      BY <1>1, <1>5, <2>2, <3>1 DEF Lap
    <3> QED
      BY <1>1, <3>1, <3>2 DEF InLap
  <2> QED
    BY <1>1, <2>1, <2>2
<1> QED
  BY <1>3, <1>6, <1>7 DEF new

(* Within a lap no peer is more than one turn ahead of another.             *)
LEMMA LapsAreFair ==
  ASSUME NEW S, NEW s \in Seq(S), s # <<>>, NEW turn \in [S -> Nat],
         NEW k, InLap(k, turn, s), NEW i \in 1..Len(s), NEW j \in 1..Len(s)
  PROVE  turn[s[i]] <= turn[s[j]] + 1
<1>1. turn[s[Len(s)]] \in Nat
  OBVIOUS
<1> QED
  BY <1>1 DEF InLap, Lap

=============================================================================
