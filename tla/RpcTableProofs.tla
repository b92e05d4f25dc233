--------------------------- MODULE RpcTableProofs ---------------------------
(***************************************************************************)
(* Every connection gets the whole table of the factory, whatever its list *)
(* and however many connections come and go.                               *)
(***************************************************************************)
EXTENDS RpcTable, SequenceTheorems, TLAPS

Blocks == UNION {[0 .. n - 1 -> Methods \cup {Null}] : n \in 0 .. IdMod}

-----------------------------------------------------------------------------
\* calloc gets what the type of max_id leaves of max_id + 1 (rpc.c:24).
LEMMA NrRange ==
    ASSUME max_id \in Ids
    PROVE  /\ Nr \in 0 .. IdMod
           /\ max_id + 1 < IdMod => Nr = max_id + 1
<1>1. IdMod \in Nat /\ IdMod # 0 /\ max_id \in 0 .. IdMod - 1
    BY RpcTableAssumption DEF RpcTableAssumption, Ids
<1>2. CASE max_id + 1 < IdMod
    <2>1. (max_id + 1) % IdMod = max_id + 1
        BY <1>1, <1>2
    <2> QED
        BY <1>1, <1>2, <2>1 DEF Nr
<1>3. CASE max_id + 1 = IdMod
    <2>1. (max_id + 1) % IdMod = 0
        BY <1>1, <1>3
    <2> QED
        BY <1>1, <1>3, <2>1 DEF Nr
<1> QED
    BY <1>1, <1>2, <1>3

\* An entry takes the place of those before it that have its id, and leaves the
\* others (rpc.c:34).
LEMMA MethodStep ==
    ASSUME NEW list, NEW n \in Nat, NEW id
    PROVE  MethodIn(list, n + 1, id) =
               IF list[n + 1].id = id THEN list[n + 1].meth ELSE MethodIn(list, n, id)
<1> DEFINE before == {m \in 1 .. n : list[m].id = id}
           upto == {m \in 1 .. n + 1 : list[m].id = id}
<1>1. CASE list[n + 1].id = id
    <2>1. n + 1 \in upto /\ \A k \in upto : k <= n + 1
        BY <1>1
    <2>2. ASSUME NEW m \in upto, \A k \in upto : k <= m
          PROVE  m = n + 1
        <3>1. n + 1 <= m /\ m <= n + 1 /\ m \in Nat
            BY <2>1, <2>2
        <3> QED
            BY <3>1
    <2>3. (CHOOSE m \in upto : \A k \in upto : k <= m) = n + 1
        BY <2>1, <2>2
    <2> QED
        BY <1>1, <2>1, <2>3 DEF MethodIn
<1>2. CASE list[n + 1].id # id
    <2>1. upto = before
        BY <1>2
    <2>2. /\ MethodIn(list, n + 1, id) =
                 IF upto = {} THEN Null
                 ELSE list[CHOOSE m \in upto : \A k \in upto : k <= m].meth
          /\ MethodIn(list, n, id) =
                 IF before = {} THEN Null
                 ELSE list[CHOOSE m \in before : \A k \in before : k <= m].meth
        BY DEF MethodIn
    <2> HIDE DEF upto, before
    <2> QED
        BY <1>2, <2>1, <2>2
<1> QED
    BY <1>1, <1>2

LEMMA NoneListed ==
    ASSUME NEW list, NEW id
    PROVE  MethodIn(list, 0, id) = Null
<1>1. {m \in 1 .. 0 : list[m].id = id} = {}
    OBVIOUS
<1> QED
    BY <1>1 DEF MethodIn

-----------------------------------------------------------------------------
LEMMA InitIInv == Init => IInv
<1> SUFFICES ASSUME Init PROVE IInv
    OBVIOUS
<1>1. IdMod \in Nat /\ IdMod # 0 /\ MaxAuth \in Nat /\ Nobody \notin Conns
    BY RpcTableAssumption DEF RpcTableAssumption
<1>2. PICK n \in 0 .. MaxAuth : auth \in [1 .. n -> [id : Ids, meth : Methods]]
    BY DEF Init
<1>3. auth \in Seq([id : Ids, meth : Methods])
    <2>1. n \in Nat
        BY <1>1
    <2> QED
        BY <1>2, <2>1, SeqDef
<1>4. Len(auth) \in Nat
    BY <1>3
<1>5. Empty \in Blocks
    <2>1. Empty \in [0 .. 0 - 1 -> Methods \cup {Null}]
        BY DEF Empty
    <2> QED
        BY <1>1, <2>1 DEF Blocks
<1>6. TypeOK
    <2>1. fn \in [Conns -> Blocks]
        BY <1>5 DEF Init
    <2>2. i \in 1 .. Len(auth) + 1
        BY <1>4 DEF Init
    <2> QED
        BY <1>3, <2>1, <2>2 DEF Init, TypeOK, Blocks
<1> QED
    BY <1>1, <1>6 DEF Init, IInv, Filled, TableIsList, EntriesFit, BlocksOwned

LEMMA CreateKeeps ==
    ASSUME IInv, NEW c \in Conns, hed_rpc_create(c)
    PROVE  IInv'
<1> USE DEF IInv, hed_rpc_create, factory
<1>1. IdMod \in Nat /\ Nobody \notin Conns
    BY RpcTableAssumption DEF RpcTableAssumption
<1>2. Nr \in 0 .. IdMod /\ (max_id + 1 < IdMod => Nr = max_id + 1)
    BY NrRange DEF TypeOK
<1> DEFINE block == [id \in 0 .. Nr - 1 |-> Null]
<1>3. block \in Blocks
    <2>1. block \in [0 .. Nr - 1 -> Methods \cup {Null}]
        OBVIOUS
    <2> QED
        BY <1>2, <2>1 DEF Blocks
<1>4. TypeOK'
    <2>1. fn' \in [Conns -> Blocks]
        BY <1>3 DEF TypeOK, Blocks
    <2>2. i' \in 1 .. Len(auth') + 1
        <3>1. Len(auth) \in Nat
            BY DEF TypeOK
        <3> QED
            BY <3>1
    <2>3. /\ max_id' \in Ids /\ auth' \in Seq([id : Ids, meth : Methods])
          /\ caller' \in Conns \cup {Nobody} /\ permit' \in BOOLEAN
          /\ heap' \subseteq Conns /\ meth' \subseteq Conns /\ stray' \in BOOLEAN
        BY DEF TypeOK
    <2> QED
        BY <2>1, <2>2, <2>3 DEF TypeOK, Blocks
<1>5. fn'[c] = block /\ \A d \in meth : fn'[d] = fn[d]
    BY DEF TypeOK
<1>6. Filled'
    <2>1. ASSUME Sound PROVE fn'[c] = [id \in 0 .. max_id |-> Null]
        <3>1. Nr - 1 = max_id
            BY <1>1, <1>2, <2>1 DEF Sound, TypeOK, Ids
        <3> QED
            BY <1>5, <3>1
    <2>2. \A id : MethodIn(auth, 0, id) = Null
        BY NoneListed
    <2>3. Sound' <=> Sound
        BY DEF Sound
    <2>4. i' - 1 = 0
        OBVIOUS
    <2>5. caller' = c /\ c \notin meth' /\ max_id' = max_id /\ auth' = auth
        OBVIOUS
    <2> HIDE DEF hed_rpc_create
    <2> QED
        BY <2>1, <2>2, <2>3, <2>4, <2>5 DEF Filled
<1>7. TableIsList'
    BY <1>5 DEF TableIsList, Sound, Listed
<1>8. EntriesFit' /\ BlocksOwned'
    BY <1>1 DEF EntriesFit, Sound, BlocksOwned, TypeOK
<1> QED
    BY <1>4, <1>6, <1>7, <1>8

LEMMA EntryKeeps ==
    ASSUME IInv, create_entry
    PROVE  IInv'
<1> USE DEF IInv, create_entry, factory
<1>1. caller \in Conns /\ caller \notin meth
    BY DEF TypeOK, Filled
<1>2. i \in Nat /\ i >= 1 /\ i \in DOMAIN auth /\ Len(auth) \in Nat
    BY DEF TypeOK
<1>3. auth[i] \in [id : Ids, meth : Methods]
    <2> DEFINE Entries == [id : Ids, meth : Methods]
    <2>1. auth \in Seq(Entries)
        BY DEF TypeOK
    <2> HIDE DEF Entries
    <2>2. auth[i] \in Entries
        BY <1>2, <2>1
    <2> QED
        BY <2>2 DEF Entries
<1>4. PICK n \in 0 .. IdMod : fn[caller] \in [0 .. n - 1 -> Methods \cup {Null}]
    <2>1. fn \in [Conns -> Blocks]
        BY DEF TypeOK, Blocks
    <2>2. fn[caller] \in Blocks
        BY <1>1, <2>1
    <2> QED
        BY <2>2 DEF Blocks
<1>5. /\ fn' \in [Conns -> Blocks]
      /\ \A d \in Conns \ {caller} : fn'[d] = fn[d]
    <2>1. CASE auth[i].id \in DOMAIN fn[caller]
        <3> DEFINE block == [fn[caller] EXCEPT ![auth[i].id] = auth[i].meth]
        <3>1. block \in [0 .. n - 1 -> Methods \cup {Null}]
            BY <1>3, <1>4, <2>1
        <3>2. block \in Blocks
            BY <3>1 DEF Blocks
        <3>3. fn' = [fn EXCEPT ![caller] = block]
            BY <2>1
        <3> HIDE DEF block
        <3> QED
            BY <1>1, <3>2, <3>3 DEF TypeOK, Blocks
    <2>2. CASE auth[i].id \notin DOMAIN fn[caller]
        BY <2>2 DEF TypeOK, Blocks
    <2> QED
        BY <2>1, <2>2
<1>6. TypeOK'
    <2>1. i' \in 1 .. Len(auth') + 1
        BY <1>2
    <2>2. stray' \in BOOLEAN
        BY DEF TypeOK
    <2> QED
        BY <1>5, <2>1, <2>2 DEF TypeOK, Blocks
<1>7. ASSUME Sound
      PROVE  /\ stray' = stray
             /\ fn'[caller] = [id \in 0 .. max_id |-> MethodIn(auth, i, id)]
    <2>1. fn[caller] = [id \in 0 .. max_id |-> MethodIn(auth, i - 1, id)]
        BY <1>1, <1>7, RpcTableAssumption DEF Filled, RpcTableAssumption
    <2>2. auth[i].id \in 0 .. max_id
        BY <1>2, <1>3, <1>7 DEF Sound, Ids, TypeOK
    <2>3. fn' = [fn EXCEPT ![caller][auth[i].id] = auth[i].meth] /\ stray' = stray
        BY <2>1, <2>2
    <2>4. fn'[caller] = [fn[caller] EXCEPT ![auth[i].id] = auth[i].meth]
        BY <1>1, <2>3 DEF TypeOK
    <2>5. \A id : MethodIn(auth, i, id) = IF auth[i].id = id THEN auth[i].meth ELSE MethodIn(auth, i - 1, id)
        <3>1. i - 1 \in Nat /\ (i - 1) + 1 = i
            BY <1>2
        <3> QED
            BY <3>1, MethodStep
    <2>6. fn'[caller] = [id \in 0 .. max_id |->
                            IF id = auth[i].id THEN auth[i].meth ELSE MethodIn(auth, i - 1, id)]
        BY <2>1, <2>2, <2>4
    <2> QED
        BY <2>3, <2>5, <2>6
<1>8. Filled'
    <2>1. Sound' <=> Sound
        BY DEF Sound
    <2>2. i' - 1 = i /\ caller' = caller /\ meth' = meth /\ max_id' = max_id /\ auth' = auth
        BY <1>2
    <2> QED
        BY <1>1, <1>7, <2>1, <2>2 DEF Filled
<1>9. TableIsList'
    BY <1>1, <1>5 DEF TableIsList, Sound, Listed, TypeOK
<1>10. EntriesFit' /\ BlocksOwned'
    BY <1>7 DEF EntriesFit, Sound, BlocksOwned
<1> QED
    BY <1>6, <1>8, <1>9, <1>10

LEMMA PermitsKeeps ==
    ASSUME IInv, create_permits
    PROVE  IInv'
<1> USE DEF IInv, create_permits, factory
<1>1. caller \in Conns /\ Nobody \notin Conns
    BY RpcTableAssumption DEF TypeOK, RpcTableAssumption
<1>2. TypeOK'
    BY <1>1 DEF TypeOK
<1>3. Filled'
    BY DEF Filled
<1>4. TableIsList'
    <2>1. i - 1 = Len(auth)
        BY DEF TypeOK
    <2>2. Sound => fn[caller] = [id \in 0 .. max_id |-> Listed(id)]
        BY <2>1, <1>1 DEF Filled, Listed
    <2>3. Sound' <=> Sound
        BY DEF Sound
    <2> QED
        BY <2>2, <2>3 DEF TableIsList, Listed
<1>5. EntriesFit' /\ BlocksOwned'
    BY <1>1 DEF EntriesFit, Sound, BlocksOwned
<1> QED
    BY <1>2, <1>3, <1>4, <1>5

\* Blocks that are freed are empty again.
LEMMA EmptyIsBlock == Empty \in Blocks
<1>1. Empty \in [0 .. 0 - 1 -> Methods \cup {Null}]
    BY DEF Empty
<1>2. 0 \in 0 .. IdMod
    BY RpcTableAssumption DEF RpcTableAssumption
<1> QED
    BY <1>1, <1>2 DEF Blocks

LEMMA RefusesKeeps ==
    ASSUME IInv, create_refuses
    PROVE  IInv'
<1> USE DEF IInv, create_refuses, factory
<1>1. caller \in Conns /\ Nobody \notin Conns /\ caller \notin meth
    BY RpcTableAssumption DEF TypeOK, Filled, RpcTableAssumption
<1>2. TypeOK'
    <2>1. fn' \in [Conns -> Blocks]
        BY <1>1, EmptyIsBlock DEF TypeOK, Blocks
    <2> QED
        BY <2>1 DEF TypeOK, Blocks
<1>3. Filled' /\ EntriesFit' /\ BlocksOwned'
    BY <1>1 DEF Filled, EntriesFit, Sound, BlocksOwned, TypeOK
<1>4. TableIsList'
    BY <1>1 DEF TableIsList, Sound, Listed, TypeOK
<1> QED
    BY <1>2, <1>3, <1>4

LEMMA DestroyKeeps ==
    ASSUME IInv, NEW C, Destroy(C)
    PROVE  IInv'
<1> USE DEF IInv, Destroy, factory, call
<1>1. Nobody \notin Conns
    BY RpcTableAssumption DEF RpcTableAssumption
<1>2. TypeOK'
    <2>1. fn' \in [Conns -> Blocks]
        BY EmptyIsBlock DEF TypeOK, Blocks
    <2> QED
        BY <2>1 DEF TypeOK, Blocks
<1>3. Filled' /\ EntriesFit' /\ BlocksOwned'
    BY <1>1 DEF Filled, EntriesFit, Sound, BlocksOwned, TypeOK
<1>4. TableIsList'
    BY DEF TableIsList, Sound, Listed, TypeOK
<1> QED
    BY <1>2, <1>3, <1>4

-----------------------------------------------------------------------------
\* The inductive invariant holds for every factory, of any length and any ids.
THEOREM Invariance == Spec => []IInv
<1>1. Init => IInv
    BY InitIInv
<1>2. IInv /\ [Next]_vars => IInv'
    <2> SUFFICES ASSUME IInv, [Next]_vars PROVE IInv'
        OBVIOUS
    <2>1. CASE UNCHANGED vars
        BY <2>1 DEF vars, factory, call, IInv, TypeOK, Filled, TableIsList, EntriesFit,
                    BlocksOwned, Sound, Listed
    <2>2. ASSUME NEW c \in Conns, hed_rpc_create(c) PROVE IInv'
        BY <2>2, CreateKeeps
    <2>3. ASSUME NEW c \in Conns, hed_rpc_destroy(c) PROVE IInv'
        BY <2>3, DestroyKeeps DEF hed_rpc_destroy
    <2>4. CASE create_entry
        BY <2>4, EntryKeeps
    <2>5. CASE create_permits
        BY <2>5, PermitsKeeps
    <2>6. CASE create_refuses
        BY <2>6, RefusesKeeps
    <2> QED
        BY <2>1, <2>2, <2>3, <2>4, <2>5, <2>6 DEF Next
<1> QED
    BY <1>1, <1>2, PTL DEF Spec

\* A table that galv has is the factory's list, for every sound factory
\* (rpc.c:24-40).
THEOREM TableCorrect == Spec => []TableIsList
<1>1. IInv => TableIsList
    BY DEF IInv
<1> QED
    BY <1>1, Invariance, PTL

\* A sound factory has nothing written outside of a table (rpc.c:30-34).
THEOREM WritesFit == Spec => []EntriesFit
<1>1. IInv => EntriesFit
    BY DEF IInv
<1> QED
    BY <1>1, Invariance, PTL

\* No block is lost and none freed that is in use (rpc.c:43, 55).
THEOREM NoBlockLost == Spec => []BlocksOwned
<1>1. IInv => BlocksOwned
    BY DEF IInv
<1> QED
    BY <1>1, Invariance, PTL

=============================================================================
