--------------------------- MODULE RepoIterProofs ---------------------------
(***************************************************************************)
(* The iterators of hed_repo return what they should for any number of     *)
(* iterators and of rows.                                                  *)
(***************************************************************************)
EXTENDS RepoIter, NaturalsInduction, WellFoundedInduction, SequenceTheorems, TLAPS

LEMMA LeastIsLeast ==
    ASSUME NEW S \in SUBSET Nat, S # {}
    PROVE  Least(S) \in S /\ \A j \in S : Least(S) <= j
<1>1. PICK k \in S : \A j \in S : ~(<<j, k>> \in OpToRel(<, Nat))
    BY NatLessThanWellFounded, WFMin
<1>2. ASSUME NEW j \in S PROVE k <= j
    <2>1. j \in Nat /\ k \in Nat /\ <<j, k>> \in Nat \X Nat
        OBVIOUS
    <2>2. ~(j < k)
        BY <1>1, <2>1 DEF OpToRel
    <2> QED
        BY <2>1, <2>2
<1> QED
    BY <1>2 DEF Least

LEMMA KeysAreNumbers == Keys \subseteq Nat /\ Nowhere \notin Keys
    BY RepoIterAssumption DEF RepoIterAssumption, Keys

\* The row after k is the first of the rows that are behind it.
LEMMA AfterIsNext ==
    ASSUME NEW S \in SUBSET Keys, NEW k \in Keys
    PROVE  \/ After(S, k) = Nowhere /\ \A j \in S : j <= k
           \/ /\ After(S, k) \in S /\ After(S, k) # Nowhere
              /\ k < After(S, k)
              /\ \A j \in S : k < j => After(S, k) <= j
<1> DEFINE later == {j \in S : j > k}
<1>1. S \subseteq Nat /\ k \in Nat /\ Nowhere \notin S
    BY KeysAreNumbers
<1>2. CASE later = {}
    BY <1>1, <1>2 DEF After
<1>3. CASE later # {}
    <2>1. Least(later) \in later /\ \A j \in later : Least(later) <= j
        BY <1>1, <1>3, LeastIsLeast
    <2> QED
        BY <1>1, <1>3, <2>1 DEF After
<1> QED
    BY <1>2, <1>3

LEMMA InitIInv == Init => IInv
<1> SUFFICES ASSUME Init PROVE IInv
    OBVIOUS
<1>1. TypeOK
    <2>1. out \in [Iters -> Seq(Keys)]
        BY EmptySeq DEF Init
    <2>2. cursor \in [Iters -> Keys \cup {Nowhere}]
        BY DEF Init
    <2>3. /\ rows \in SUBSET Keys /\ bad \in BOOLEAN
          /\ state \in [Iters -> {"none", "EAGAIN", "end", "EINVAL"}]
          /\ stayed \in [Iters -> SUBSET Keys] /\ seen \in [Iters -> SUBSET Keys]
        BY DEF Init
    <2> QED
        BY <2>1, <2>2, <2>3 DEF TypeOK
<1>2. \A i \in Iters : state[i] = "none" /\ Elements(out[i]) = {} /\ Len(out[i]) = 0
    BY DEF Init, Elements
<1> QED
    BY <1>1, <1>2 DEF Init, IInv, Ascending, NoneMissed, NoGhosts, Ahead, Tracked

\* An iterator is created on the first row.
LEMMA CreateIterKeeps ==
    ASSUME IInv, NEW i \in Iters, hed_repo_create_iter(i)
    PROVE  IInv'
<1> USE DEF IInv, hed_repo_create_iter
<1>1. rows \subseteq Nat /\ Nowhere \notin rows
    BY KeysAreNumbers DEF TypeOK
<1>2. Least(rows) \in rows /\ \A k \in rows : Least(rows) <= k
    BY <1>1, LeastIsLeast
<1>3. TypeOK'
    BY <1>2 DEF TypeOK
<1>4. Ascending'
    BY DEF Ascending, TypeOK
<1>5. NoneMissed'
    BY <1>1, <1>2 DEF NoneMissed, TypeOK, Elements
<1>6. NoGhosts'
    BY <1>2 DEF NoGhosts, TypeOK, Elements
<1>7. Ahead'
    BY DEF Ahead, TypeOK
<1>8. Tracked'
    BY DEF Tracked, TypeOK
<1> QED
    BY <1>3, <1>4, <1>5, <1>6, <1>7, <1>8

\* A step returns a row that is behind all others, and leaves none out.
LEMMA StepKeeps ==
    ASSUME IInv, NEW i \in Iters, hed_repo_step(i)
    PROVE  IInv'
<1> DEFINE k == cursor[i]
           next == After(rows, k)
<1> USE DEF IInv
<1>1. /\ state[i] = "EAGAIN" /\ k # Nowhere /\ k \in rows /\ k \in Keys
      /\ rows \subseteq Keys /\ Keys \subseteq Nat /\ Nowhere \notin Keys
      /\ out[i] \in Seq(Keys)
    BY KeysAreNumbers DEF TypeOK, NoGhosts, hed_repo_step
<1>2. \/ next = Nowhere /\ \A j \in rows : j <= k
      \/ /\ next \in rows /\ next # Nowhere /\ k < next
         /\ \A j \in rows : k < j => next <= j
    BY <1>1, AfterIsNext
<1>3. /\ out' = [out EXCEPT ![i] = Append(out[i], k)]
      /\ UNCHANGED <<rows, stayed, seen, bad>>
      /\ \/ next = Nowhere /\ state' = [state EXCEPT ![i] = "end"] /\ cursor' = cursor
         \/ next # Nowhere /\ cursor' = [cursor EXCEPT ![i] = next] /\ state' = state
    BY DEF hed_repo_step
<1>4. /\ out'[i] \in Seq(Keys) /\ Len(out'[i]) = Len(out[i]) + 1
      /\ out'[i][Len(out[i]) + 1] = k
      /\ \A n \in 1 .. Len(out[i]) : out'[i][n] = out[i][n]
      /\ Len(out[i]) \in Nat
    BY <1>1, <1>3 DEF TypeOK
<1>5. Elements(out'[i]) = Elements(out[i]) \cup {k}
    BY <1>4 DEF Elements
<1>6. \A j \in Iters \ {i} :
          out'[j] = out[j] /\ cursor'[j] = cursor[j] /\ state'[j] = state[j]
    BY <1>3 DEF TypeOK
<1>7. TypeOK'
    BY <1>1, <1>2, <1>3, <1>4 DEF TypeOK
<1>8. Ascending'
    <2>1. \A n \in 1 .. Len(out[i]) : out[i][n] < k
        BY <1>1 DEF Ahead
    <2>2. \A m, n \in 1 .. Len(out'[i]) : m < n => out'[i][m] < out'[i][n]
        BY <1>1, <1>4, <2>1 DEF Ascending
    <2> QED
        BY <1>6, <2>2 DEF Ascending
<1>9. NoneMissed'
    <2>1. \A j \in stayed[i] \ Elements(out[i]) : k <= j
        BY <1>1 DEF NoneMissed
    <2>2. stayed[i] \subseteq rows
        BY <1>1 DEF Tracked
    <2>3. CASE next = Nowhere
        <3>1. ASSUME NEW j \in stayed[i], j \notin Elements(out[i]) PROVE j = k
            <4>1. j \in rows /\ j \in Nat /\ k \in Nat /\ k <= j /\ j <= k
                BY <1>1, <1>2, <2>1, <2>2, <2>3, <3>1
            <4> QED
                BY <4>1
        <3>2. stayed[i] \subseteq Elements(out'[i])
            BY <1>5, <3>1
        <3> QED
            BY <1>3, <1>6, <2>3, <3>2 DEF NoneMissed, TypeOK
    <2>4. CASE next # Nowhere
        <3>1. ASSUME NEW j \in stayed[i] \ Elements(out'[i]) PROVE next <= j
            <4>1. j \in rows /\ j \in Nat /\ k \in Nat /\ k <= j /\ j # k
                BY <1>1, <1>5, <2>1, <2>2
            <4>2. k < j
                BY <4>1
            <4> QED
                BY <1>2, <2>4, <4>1, <4>2
        <3> QED
            BY <1>1, <1>3, <1>6, <2>4, <3>1 DEF NoneMissed, TypeOK
    <2> QED
        BY <2>3, <2>4
<1>10. NoGhosts'
    <2>1. rows \subseteq seen[i]
        BY <1>1 DEF Tracked
    <2> QED
        BY <1>1, <1>2, <1>3, <1>5, <1>6, <2>1 DEF NoGhosts, TypeOK
<1>11. Ahead'
    <2>1. \A n \in 1 .. Len(out[i]) : out[i][n] < k
        BY <1>1 DEF Ahead
    <2>2. ASSUME next # Nowhere, NEW n \in 1 .. Len(out'[i])
          PROVE  out'[i][n] < next
        <3>1. next \in Nat /\ k \in Nat /\ k < next
            BY <1>1, <1>2, <2>2
        <3>2. CASE n \in 1 .. Len(out[i])
            <4>1. out[i] \in Seq(Keys)
                BY <1>1
            <4>2. out[i][n] \in Keys
                BY <3>2, <4>1
            <4>3. out[i][n] \in Nat
                BY <1>1, <4>2
            <4> QED
                BY <1>4, <2>1, <3>1, <3>2, <4>3
        <3>3. CASE n = Len(out[i]) + 1
            BY <1>4, <3>1, <3>3
        <3> QED
            BY <1>4, <3>2, <3>3
    <2> QED
        BY <1>3, <1>6, <2>2 DEF Ahead, TypeOK
<1>12. Tracked'
    BY <1>3, <1>6, <1>1 DEF Tracked, TypeOK
<1> QED
    BY <1>7, <1>8, <1>9, <1>10, <1>11, <1>12

\* What the other actions do to an iterator.
LEMMA StepFailsKeeps ==
    ASSUME IInv, NEW i \in Iters, step_fails(i)
    PROVE  IInv'
<1> USE DEF IInv, step_fails, hist
<1>1. TypeOK'
    BY DEF TypeOK
<1>2. Ascending' /\ NoGhosts' /\ Ahead' /\ Tracked'
    BY DEF Ascending, NoGhosts, Ahead, Tracked, TypeOK, Elements
<1>3. NoneMissed'
    <2>1. /\ state'[i] = "EINVAL" /\ bad' = bad
          /\ cursor' = cursor /\ out' = out /\ stayed' = stayed
          /\ \A j \in Iters \ {i} : state'[j] = state[j]
        BY DEF TypeOK
    <2>2. ~bad => stayed[i] \subseteq Elements(out[i])
        BY DEF NoneMissed
    <2> QED
        BY <2>1, <2>2 DEF NoneMissed, Elements
<1> QED
    BY <1>1, <1>2, <1>3

LEMMA DestroyIterKeeps ==
    ASSUME IInv, NEW i \in Iters, hed_repo_destroy_iter(i)
    PROVE  IInv'
<1> USE DEF IInv, hed_repo_destroy_iter
<1>1. TypeOK'
    BY EmptySeq DEF TypeOK
<1>2. Ascending'
    BY DEF Ascending, TypeOK
<1>3. NoneMissed'
    <2>1. state'[i] = "none"
        BY DEF TypeOK
    <2>2. \A j \in Iters \ {i} : /\ state'[j] = state[j] /\ cursor'[j] = cursor[j]
                                /\ out'[j] = out[j] /\ stayed'[j] = stayed[j]
        BY DEF TypeOK
    <2> QED
        BY <2>1, <2>2 DEF NoneMissed, Elements
<1>4. NoGhosts' /\ Ahead' /\ Tracked'
    BY DEF NoGhosts, Ahead, Tracked, TypeOK, Elements
<1> QED
    BY <1>1, <1>2, <1>3, <1>4

LEMMA UpdateKeeps ==
    ASSUME IInv, NEW k \in Keys, hed_repo_update(k)
    PROVE  IInv'
<1> USE DEF IInv, hed_repo_update
<1>1. TypeOK'
    BY DEF TypeOK
<1>2. Ascending' /\ NoneMissed' /\ Ahead'
    BY DEF Ascending, NoneMissed, Ahead, Elements
<1>3. NoGhosts' /\ Tracked'
    BY DEF NoGhosts, Tracked, TypeOK, Elements
<1> QED
    BY <1>1, <1>2, <1>3

\* A cursor on the row that is deleted moves on to the row after it.
LEMMA DelKeeps ==
    ASSUME IInv, NEW k \in Keys, hed_repo_del(k)
    PROVE  IInv'
<1> DEFINE next == After(rows, k)
<1> USE DEF IInv
<1>1. /\ k \in rows /\ ~bad
      /\ rows' = rows \ {k}
      /\ cursor' = [i \in Iters |-> IF cursor[i] = k THEN next ELSE cursor[i]]
      /\ stayed' = [i \in Iters |-> stayed[i] \ {k}]
      /\ UNCHANGED <<state, out, seen, bad>>
    BY DEF hed_repo_del
<1>2. /\ rows \subseteq Keys /\ Keys \subseteq Nat /\ Nowhere \notin Keys
      /\ k \in Nat /\ k # Nowhere
    BY KeysAreNumbers DEF TypeOK
<1>3. \/ next = Nowhere /\ \A j \in rows : j <= k
      \/ /\ next \in rows /\ next # Nowhere /\ k < next
         /\ \A j \in rows : k < j => next <= j
    BY <1>2, AfterIsNext
<1>4. next \in rows' \cup {Nowhere}
    BY <1>1, <1>2, <1>3
<1>5. TypeOK'
    BY <1>1, <1>2, <1>4 DEF TypeOK
<1>6. Ascending'
    BY <1>1 DEF Ascending
<1>7. Tracked'
    BY <1>1 DEF Tracked, TypeOK
<1>8. NoGhosts'
    BY <1>1, <1>4 DEF NoGhosts, TypeOK, Elements
<1>9. NoneMissed'
    <2>1. ASSUME NEW i \in Iters, state'[i] = "EAGAIN",
                 NEW j \in stayed'[i], j \notin Elements(out'[i])
          PROVE  cursor'[i] # Nowhere /\ cursor'[i] <= j
        <3>1. /\ j \in stayed[i] /\ j # k /\ j \notin Elements(out[i])
              /\ cursor[i] # Nowhere /\ cursor[i] <= j
            BY <1>1, <2>1 DEF NoneMissed, Elements
        <3>2. j \in rows /\ j \in Nat
            BY <1>1, <1>2, <2>1, <3>1 DEF Tracked
        <3>3. CASE cursor[i] = k
            <4>1. k < j
                BY <1>2, <3>1, <3>2, <3>3
            <4>2. next # Nowhere /\ next <= j
                BY <1>2, <1>3, <3>2, <4>1
            <4> QED
                BY <1>1, <3>3, <4>2
        <3> QED
            BY <1>1, <3>1, <3>3
    <2>2. ASSUME NEW i \in Iters, state'[i] = "end" \/ (state'[i] = "EINVAL" /\ ~bad')
          PROVE  stayed'[i] \subseteq Elements(out'[i])
        BY <1>1, <2>2 DEF NoneMissed, Elements
    <2> QED
        BY <2>1, <2>2 DEF NoneMissed
<1>10. Ahead'
    <2>1. ASSUME NEW i \in Iters, state[i] = "EAGAIN", cursor'[i] # Nowhere,
                 NEW n \in 1 .. Len(out[i])
          PROVE  out[i][n] < cursor'[i]
        <3>1. CASE cursor[i] # k
            BY <1>1, <2>1, <3>1 DEF Ahead
        <3>2. CASE cursor[i] = k
            <4>1. out[i] \in Seq(Keys)
                BY DEF TypeOK
            <4>2. out[i][n] \in Keys
                BY <4>1
            <4>3. out[i][n] < k
                BY <1>2, <2>1, <3>2 DEF Ahead
            <4>4. cursor'[i] = next /\ next # Nowhere
                BY <1>1, <2>1, <3>2
            <4>5. next \in Nat /\ k < next
                BY <1>2, <1>3, <4>4
            <4>6. out[i][n] \in Nat /\ k \in Nat
                BY <1>2, <4>2
            <4>7. out[i][n] < next
                BY <4>3, <4>5, <4>6
            <4> QED
                BY <4>4, <4>7
        <3> QED
            BY <3>1, <3>2
    <2> QED
        BY <1>1, <2>1 DEF Ahead
<1> QED
    BY <1>5, <1>6, <1>7, <1>8, <1>9, <1>10

LEMMA StepIInv == IInv /\ [Next]_vars => IInv'
<1> SUFFICES ASSUME IInv, [Next]_vars PROVE IInv'
    OBVIOUS
<1>1. ASSUME NEW i \in Iters, hed_repo_create_iter(i) PROVE IInv'
    BY <1>1, CreateIterKeeps
<1>2. ASSUME NEW i \in Iters, hed_repo_step(i) PROVE IInv'
    BY <1>2, StepKeeps
<1>3. ASSUME NEW i \in Iters, step_fails(i) PROVE IInv'
    BY <1>3, StepFailsKeeps
<1>4. ASSUME NEW i \in Iters, hed_repo_destroy_iter(i) PROVE IInv'
    BY <1>4, DestroyIterKeeps
<1>5. ASSUME NEW k \in Keys, hed_repo_update(k) PROVE IInv'
    BY <1>5, UpdateKeeps
<1>6. ASSUME NEW k \in Keys, hed_repo_del(k) PROVE IInv'
    BY <1>6, DelKeeps
<1>7. CASE write_fails
    BY <1>7 DEF write_fails, hist, IInv, TypeOK, Ascending, NoneMissed, NoGhosts, Ahead,
       Tracked, Elements
<1>8. CASE hed_repo_restart
    <2>1. TypeOK'
        BY <1>8 DEF hed_repo_restart, hist, IInv, TypeOK
    <2>2. \A i \in Iters : state'[i] = "none"
        BY <1>8 DEF hed_repo_restart
    <2>3. Ascending' /\ NoGhosts'
        BY <1>8, <2>2 DEF hed_repo_restart, hist, IInv, Ascending, NoGhosts, Elements
    <2>4. NoneMissed' /\ Ahead' /\ Tracked'
        BY <2>2 DEF NoneMissed, Ahead, Tracked
    <2> QED
        BY <2>1, <2>3, <2>4 DEF IInv
<1>9. CASE UNCHANGED vars
    BY <1>9 DEF vars, IInv, TypeOK, Ascending, NoneMissed, NoGhosts, Ahead, Tracked, Elements
<1> QED
    BY <1>1, <1>2, <1>3, <1>4, <1>5, <1>6, <1>7, <1>8, <1>9 DEF Next

\* Everything that the correctness of the iterators rests on holds in every
\* state (repo.c:418-499).
THEOREM Invariance == Spec => []IInv
<1>1. Init => IInv
    BY InitIInv
<1>2. IInv /\ [Next]_vars => IInv'
    BY StepIInv
<1> QED
    BY <1>1, <1>2, PTL DEF Spec

\* Rows come in the order of their keys, none twice, for any number of rows and
\* iterators and whatever is written between two steps (repo.c:476-498).
THEOREM StepsAscend == Spec => []Ascending
<1>1. IInv => Ascending
    BY DEF IInv
<1> QED
    BY <1>1, Invariance, PTL

\* A loop over an iterator leaves out no row that was there from its creation
\* to its end (repo.c:476-498).
THEOREM StepsMissNone == Spec => []NoneMissed
<1>1. IInv => NoneMissed
    BY DEF IInv
<1> QED
    BY <1>1, Invariance, PTL

\* hed_repo_step returns no row that was never in the table, and its cursor is
\* on no row that was deleted (repo.c:477).
THEOREM StepsReturnRows == Spec => []NoGhosts
<1>1. IInv => NoGhosts
    BY DEF IInv
<1> QED
    BY <1>1, Invariance, PTL

\* A row that is further on leaves fewer to come.
LEMMA FurtherOn ==
    ASSUME NEW i \in Iters, cursor[i] \in Keys, cursor'[i] \in Keys \cup {Nowhere},
           cursor'[i] = Nowhere \/ cursor[i] < cursor'[i]
    PROVE  Left(i)' < Left(i)
<1>1. Left(i) \in Nat /\ Left(i) = MaxKey + 1 - cursor[i] /\ Left(i) > 0
    BY RepoIterAssumption DEF Left, Keys
<1>2. CASE cursor'[i] = Nowhere
    BY <1>1, <1>2 DEF Left
<1>3. CASE cursor'[i] # Nowhere
    <2>1. Left(i)' = MaxKey + 1 - cursor'[i]
        BY <1>3 DEF Left
    <2> QED
        BY <1>1, <1>3, <2>1, RepoIterAssumption DEF Keys
<1> QED
    BY <1>2, <1>3

\* What LoopEnds rests on besides fairness: however many rows are written between
\* its steps, a loop has a number of rows to come that only goes down
\* (repo.c:476-498).
THEOREM StepsAdvance == Spec => LoopAdvances
<1> DEFINE Advances(i) ==
               \/ Left(i)' < Left(i)
               \/ Left(i)' = Left(i) /\ cursor'[i] = cursor[i] /\ out'[i] = out[i]
<1>1. ASSUME IInv, IInv', [Next]_vars
      PROVE  [\A i \in Iters : state[i] = "EAGAIN" /\ state'[i] = "EAGAIN" => Advances(i)]_vars
    <2> SUFFICES ASSUME Next, NEW i \in Iters, state[i] = "EAGAIN", state'[i] = "EAGAIN"
                 PROVE  Advances(i)
        BY <1>1
    <2>0. /\ cursor \in [Iters -> Keys \cup {Nowhere}] /\ cursor'[i] \in Keys \cup {Nowhere}
          /\ state \in [Iters -> {"none", "EAGAIN", "end", "EINVAL"}]
          /\ out \in [Iters -> Seq(Keys)] /\ rows \in SUBSET Keys
        BY <1>1 DEF IInv, TypeOK
    <2>1. ASSUME cursor'[i] = cursor[i], out'[i] = out[i] PROVE Advances(i)
        BY <2>1 DEF Left
    <2>2. CASE \E j \in Iters : hed_repo_create_iter(j)
        <3>1. cursor'[i] = cursor[i] /\ out'[i] = out[i]
            BY <2>0, <2>2 DEF hed_repo_create_iter
        <3> QED
            BY <2>1, <3>1
    <2>3. CASE \E j \in Iters : hed_repo_step(j)
        <3>1. PICK j \in Iters : hed_repo_step(j)
            BY <2>3
        <3>2. CASE j # i
            <4>1. cursor'[i] = cursor[i] /\ out'[i] = out[i]
                BY <2>0, <3>1, <3>2 DEF hed_repo_step
            <4> QED
                BY <2>1, <4>1
        <3>3. CASE j = i
            <4>1. cursor[i] \in Keys
                BY <2>0, <3>1, <3>3 DEF hed_repo_step
            <4>2. cursor'[i] = After(rows, cursor[i]) /\ After(rows, cursor[i]) # Nowhere
                <5>1. CASE After(rows, cursor[i]) = Nowhere
                    <6>1. state'[i] = "end"
                        BY <2>0, <3>1, <3>3, <5>1 DEF hed_repo_step
                    <6> QED
                        BY <6>1
                <5>2. CASE After(rows, cursor[i]) # Nowhere
                    <6>1. cursor' = [cursor EXCEPT ![i] = After(rows, cursor[i])]
                        BY <3>1, <3>3, <5>2 DEF hed_repo_step
                    <6> QED
                        BY <2>0, <5>2, <6>1
                <5> QED
                    BY <5>1, <5>2
            <4>3. After(rows, cursor[i]) = Nowhere \/ cursor[i] < After(rows, cursor[i])
                BY <2>0, <4>1, AfterIsNext
            <4> QED
                BY <2>0, <4>1, <4>2, <4>3, FurtherOn
        <3> QED
            BY <3>2, <3>3
    <2>4. CASE \E j \in Iters : step_fails(j)
        <3>1. cursor'[i] = cursor[i] /\ out'[i] = out[i]
            BY <2>0, <2>4 DEF step_fails, hist
        <3> QED
            BY <2>1, <3>1
    <2>5. CASE \E j \in Iters : hed_repo_destroy_iter(j)
        <3>1. cursor'[i] = cursor[i] /\ out'[i] = out[i]
            BY <2>0, <2>5 DEF hed_repo_destroy_iter
        <3> QED
            BY <2>1, <3>1
    <2>6. CASE \E k \in Keys : hed_repo_del(k)
        <3>1. PICK k \in Keys : hed_repo_del(k)
            BY <2>6
        <3>2. out'[i] = out[i] /\ cursor'[i] = IF cursor[i] = k THEN After(rows, k) ELSE cursor[i]
            BY <3>1 DEF hed_repo_del
        <3>3. CASE cursor[i] = k
            <4>1. cursor'[i] = After(rows, k) /\ cursor[i] = k /\ cursor[i] \in Keys
                BY <3>2, <3>3
            <4>2. After(rows, k) = Nowhere \/ k < After(rows, k)
                BY <2>0, AfterIsNext
            <4> QED
                BY <2>0, <4>1, <4>2, FurtherOn
        <3> QED
            BY <2>1, <3>2, <3>3
    <2>7. CASE (\E k \in Keys : hed_repo_update(k)) \/ write_fails \/ hed_repo_restart
        <3>1. cursor'[i] = cursor[i] /\ out'[i] = out[i]
            BY <2>7 DEF hed_repo_update, write_fails, hed_repo_restart, hist
        <3> QED
            BY <2>1, <3>1
    <2> QED
        BY <2>2, <2>3, <2>4, <2>5, <2>6, <2>7 DEF Next
<1> QED
    BY <1>1, Invariance, PTL DEF Spec, LoopAdvances

=============================================================================
