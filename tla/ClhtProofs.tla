----------------------------- MODULE ClhtProofs -----------------------------
(***************************************************************************)
(* Proofs about Clht, for any threads and keys, any size of buckets and of *)
(* the first table, and any number of resizes: whatever tables a thread    *)
(* reads while they are replaced, an address keeps its place and its lock, *)
(* and the calls for it all return that lock.                              *)
(*                                                                         *)
(* The invariant has three layers.  Who may write: one thread at a time    *)
(* holds a bucket, and only of the table in use, and one thread at a time  *)
(* resizes.  Which buckets are locked for good: all those of the older     *)
(* tables, and those of the table in use that have been copied.  And what  *)
(* the tables hold, which rests on the two others.                         *)
(***************************************************************************)
EXTENDS Clht, FiniteSetTheorems, TLAPS

(* Where a thread is that holds a bucket; that fills a new table, and then *)
(* until it gives the resize lock back; that may have to resize; and that  *)
(* has put its address in.                                                 *)
Holding == {"scan", "write_key", "chain", "release"}
Filling == {"copy", "publish"}
Resizing == {"copy", "publish", "link", "resize_unlock"}
Charged == {"chain", "release", "resize_read", "resize_try"} \cup Resizing
Made == {"release", "resize_read", "resize_try"} \cup Resizing

(* Address k is in table v, with lock l.                                   *)
Has(v, k, l) == Slot(k, l) \in slots[v][Hash(v, k)]

(* A call has its arguments, and knows a table and a bucket of that table  *)
(* or of an older one.                                                     *)
CallsFit ==
  \A t \in Threads :
    /\ pc[t] # "idle" =>
         /\ key[t] \in Keys
         /\ hashtable[t] \in 1 .. ht
         /\ bucket[t][1] \in 1 .. hashtable[t]
    /\ pc[t] \in {"look", "enter", "acquire", "wait", "reload"} \cup Holding =>
         bucket[t][2] = Hash(bucket[t][1], key[t])
    /\ pc[t] = "look" => bucket[t][1] = hashtable[t]
    /\ pc[t] \in {"write_key", "chain"} \cup Made => new_lock[t] \in 1 .. locks

(* A bucket that is held is one of the table in use, and held by one.      *)
WritersFit ==
  /\ \A t \in Threads :
       pc[t] \in Holding =>
         hashtable[t] = ht /\ bucket[t][1] = ht /\ bucket_lock[ht][bucket[t][2]] = "UPDATE"
  /\ \A t, u \in Threads :
       pc[t] \in Holding /\ pc[u] \in Holding /\ bucket[t] = bucket[u] => t = u

(* At most one thread has to resize; it is one that has seen the table in  *)
(* use past its threshold, so that nobody else reaches the threshold.      *)
OneResizer ==
  /\ \A t \in Threads : resize[t] => pc[t] \in Charged /\ num_expands[ht] >= Threshold(ht)
  /\ \A t, u \in Threads : resize[t] /\ resize[u] => t = u
  /\ \A t \in Threads : pc[t] \in {"resize_read", "resize_try"} \cup Filling => resize[t]
  /\ \A t \in Threads :
       pc[t] \in {"resize_try"} \cup Filling => hashtable[t] = ht /\ bucket[t][1] = ht
  /\ \A t \in Threads : pc[t] \in Filling => ht_new[t] = ht + 1 /\ tables = ht + 1
  /\ \A t \in Threads : pc[t] = "link" => ht_new[t] = ht
  /\ \A t \in Threads : pc[t] \in Resizing => resize_lock = 1
  /\ \A t, u \in Threads : pc[t] \in Resizing /\ pc[u] \in Resizing => t = u
  /\ (\A t \in Threads : pc[t] \notin Filling) => tables = ht

(* Which buckets are locked for good.                                      *)
BucketsFit ==
  /\ \A v \in Tables : \A b \in Buckets(v) :
       /\ v < ht => bucket_lock[v][b] = "RESIZE"
       /\ v > ht => bucket_lock[v][b] = "FREE"
  /\ \A t \in Threads : pc[t] = "resize_try" => bucket[t][2] = 0
  /\ \A t \in Threads : pc[t] = "copy" =>
       \A b \in Buckets(ht) : bucket_lock[ht][b] = "RESIZE" <=> b < bucket[t][2]
  /\ \A t \in Threads : pc[t] = "publish" =>
       \A b \in Buckets(ht) : bucket_lock[ht][b] = "RESIZE"
  /\ (\A t \in Threads : pc[t] \notin Filling) =>
       \A b \in Buckets(ht) : bucket_lock[ht][b] # "RESIZE"

(* Every address is in its bucket, once.                                   *)
SlotsFit ==
  \A v \in Tables : \A b \in Buckets(v) :
    /\ IsFiniteSet(slots[v][b])
    /\ \A s \in slots[v][b] : s.key # Null => b = Hash(v, s.key)
    /\ \A r, s \in slots[v][b] : r.key = s.key /\ s.key # Null => r = s

(* What an older table has, the table in use has; the table that is being  *)
(* filled has what has been copied.                                        *)
KeysMove ==
  /\ \A v \in 1 .. ht, k \in Keys, l \in 1 .. locks : Has(v, k, l) => Has(ht, k, l)
  /\ tables = ht + 1 =>
       \A k \in Keys, l \in 1 .. locks :
         Has(ht + 1, k, l) <=> Has(ht, k, l) /\ bucket_lock[ht][Hash(ht, k)] = "RESIZE"

(* What the calls know of the table.                                       *)
AnswersFit ==
  /\ \A t \in Threads : pc[t] \in {"write_key", "chain"} =>
       \A l \in 1 .. locks : ~Has(ht, key[t], l)
  /\ \A t \in Threads : pc[t] \in Made => Has(ht, key[t], new_lock[t])
  /\ \A t \in Threads : pc[t] = "look" /\ op[t] = "get" =>
       \E l \in 1 .. locks : Has(hashtable[t], key[t], l)
  /\ \A k \in Keys : \A l \in got[k] : l \in 1 .. locks /\ Has(ht, k, l)

IInv ==
  /\ TypeOK /\ CallsFit /\ WritersFit /\ OneResizer /\ BucketsFit
  /\ SlotsFit /\ KeysMove /\ AnswersFit

----------------------------------------------------------------------------
(* What the assumption on the constants says.                              *)
LEMMA Constants ==
  /\ Keys \subseteq Nat /\ Null \notin Nat
  /\ EntriesPerBucket \in Nat \ {0} /\ InitBuckets \in Nat \ {0} /\ MaxTables \in Nat \ {0}
  /\ GrowBy \subseteq Nat \ {0, 1}
  BY ClhtAssumption

(* The bucket of an address is one of the table.                           *)
LEMMA HashIn ==
  ASSUME TypeOK, NEW v \in 1 .. tables, NEW k \in Keys
  PROVE  Hash(v, k) \in Buckets(v)
<1>1. v \in Tables /\ num_buckets[v] \in Nat /\ num_buckets[v] > 0 /\ k \in Nat
  BY Constants DEF TypeOK, TablesOK, Tables
<1>2. ASSUME NEW n \in Nat, n > 0 PROVE k % n \in 0 .. n - 1
  BY <1>1, <1>2
<1> QED
  BY <1>1, <1>2 DEF Hash, Buckets

(* While the number of buckets of a table stays, so does all that is       *)
(* computed from it.                                                       *)
LEMMA SameHash ==
  ASSUME NEW v, num_buckets'[v] = num_buckets[v]
  PROVE  /\ Buckets(v)' = Buckets(v) /\ Threshold(v)' = Threshold(v)
         /\ \A k : Hash(v, k)' = Hash(v, k)
  BY DEF Buckets, Threshold, Hash

----------------------------------------------------------------------------
(* Types.                                                                  *)

LEMMA TypeInit == Init => TypeOK
<1> SUFFICES ASSUME Init PROVE TypeOK
  OBVIOUS
<1> USE Constants DEF Init
<1>1. tables \in Tables /\ ht \in 1 .. tables /\ resize_lock \in {0, 1} /\ locks \in Nat
  BY DEF Tables
<1>2. /\ num_buckets \in [Tables -> Nat] /\ \A v \in 1 .. tables : num_buckets[v] > 0
      /\ num_expands \in [Tables -> Nat]
      /\ table_new \in [Tables -> (1 .. tables) \cup {Null}]
  BY <1>1 DEF Tables
<1>3. DOMAIN slots = Tables /\ DOMAIN bucket_lock = Tables
  OBVIOUS
<1>4. ASSUME NEW v \in Tables
      PROVE  /\ slots[v] \in [Buckets(v) -> SUBSET [key : Keys \cup {Null}, lock : 1 .. locks]]
             /\ bucket_lock[v] \in [Buckets(v) -> {"FREE", "UPDATE", "RESIZE"}]
  BY <1>4 DEF Buckets, EmptyTable, FreeTable
<1>5. /\ pc \in [Threads -> Labels]
      /\ op \in [Threads -> {"put_type", "put_init", "get", Null}]
      /\ key \in [Threads -> Keys \cup {Null}]
      /\ hashtable \in [Threads -> (1 .. tables) \cup {Null}]
      /\ ht_new \in [Threads -> (1 .. tables) \cup {Null}]
      /\ new_lock \in [Threads -> (1 .. locks) \cup {Null}]
      /\ resize \in [Threads -> BOOLEAN]
      /\ bucket \in [Threads -> (Tables \X Nat) \cup {Null}]
      /\ got \in [Keys -> SUBSET ((1 .. locks) \cup {Null})]
  BY DEF Labels
<1>6. \A t \in Threads : pc[t] = "idle"
  OBVIOUS
<1> QED
  BY <1>1, <1>2, <1>3, <1>4, <1>5, <1>6 DEF TypeOK, TablesOK, ThreadsOK

LEMMA TablesStep ==
  ASSUME IInv, NEW t \in Threads, Call(t) \/ Step(t)
  PROVE  TablesOK'
<1> USE Constants DEF Tables, Goto
<1>0. TypeOK /\ TablesOK /\ ThreadsOK /\ CallsFit /\ WritersFit /\ OneResizer
  BY DEF IInv, TypeOK
<1>1. CASE UNCHANGED <<ht, tables, resize_lock, locks, num_buckets, num_expands, table_new,
                       slots, bucket_lock>>
  BY <1>0, <1>1 DEF TablesOK, Buckets
<1>2. CASE Call(t)
  BY <1>1, <1>2 DEF Call, shared, content
<1>3. CASE Look(t) \/ EnterImpl(t) \/ AwaitNew(t) \/ Reload(t) \/ ResizeRead(t)
  BY <1>1, <1>3 DEF Look, EnterImpl, AwaitNew, Reload, ResizeRead, shared, content
<1>4. ASSUME NEW b, b \in Tables \X Nat, NEW x \in {"FREE", "UPDATE", "RESIZE"},
             bucket_lock' = [bucket_lock EXCEPT ![b[1]][b[2]] = x],
             UNCHANGED num_buckets, NEW v \in Tables
      PROVE  bucket_lock'[v] \in [Buckets(v)' -> {"FREE", "UPDATE", "RESIZE"}]
             /\ DOMAIN bucket_lock' = Tables
  BY <1>0, <1>4 DEF TablesOK, Buckets
<1>5. CASE AcquireBucket(t)
  <2>1. bucket[t] \in Tables \X Nat
    BY <1>0, <1>5 DEF AcquireBucket, ThreadsOK
  <2> QED
    BY <1>0, <1>1, <1>4, <1>5, <2>1 DEF AcquireBucket, LockBucket, TablesOK, Buckets, content
<1>6. CASE Release(t)
  <2>1. bucket[t] \in Tables \X Nat
    BY <1>0, <1>6 DEF Release, ThreadsOK
  <2> QED
    BY <1>0, <1>1, <1>4, <1>6, <2>1
    DEF Release, ReleaseBucket, LockBucket, TablesOK, Buckets, content
<1>7. ASSUME locks' \in Nat, locks' >= locks, NEW x \in Tables
      PROVE  slots[x] \in [Buckets(x) -> SUBSET [key : Keys \cup {Null}, lock : 1 .. locks']]
  <2> SUFFICES ASSUME NEW c \in Buckets(x), NEW s \in slots[x][c]
               PROVE  s \in [key : Keys \cup {Null}, lock : 1 .. locks']
    BY <1>0 DEF TablesOK
  <2>1. s \in [key : Keys \cup {Null}, lock : 1 .. locks]
    BY <1>0 DEF TablesOK
  <2>2. 1 .. locks \subseteq 1 .. locks'
    BY <1>0, <1>7 DEF TablesOK
  <2> QED BY <2>1, <2>2
<1>8. ASSUME NEW v \in Tables, NEW S, NEW b, slots' = [slots EXCEPT ![v][b] = S],
             UNCHANGED num_buckets, locks' >= locks, locks' \in Nat,
             S \in SUBSET [key : Keys \cup {Null}, lock : 1 .. locks'], NEW w \in Tables
      PROVE  slots'[w] \in [Buckets(w)' -> SUBSET [key : Keys \cup {Null}, lock : 1 .. locks']]
             /\ DOMAIN slots' = Tables
  BY <1>0, <1>7, <1>8 DEF TablesOK, Buckets
<1>9. CASE Scan(t)
  <2> DEFINE v == bucket[t][1]
             b == bucket[t][2]
             S == slots[v][b] \cup {Slot(Null, locks')}
  <2>1. bucket[t] \in Tables \X Nat /\ v \in Tables /\ b \in Buckets(v)
        /\ hashtable[t] \in Tables
    BY <1>0, <1>9 DEF Scan, CallsFit, ThreadsOK, TablesOK
  <2>2. CASE ReleaseBucket(t) /\ UNCHANGED <<ht, resize_lock, tables, table_new, content>>
    BY <1>0, <1>4, <2>1, <2>2 DEF ReleaseBucket, LockBucket, TablesOK, Buckets, content
  <2>3. CASE /\ locks' = locks + 1 /\ slots' = [slots EXCEPT ![v][b] = S]
             /\ UNCHANGED <<num_expands, num_buckets, bucket_lock,
                            ht, resize_lock, tables, table_new>>
    <3>1. locks' \in Nat /\ locks' >= locks /\ locks' \in 1 .. locks'
      BY <1>0, <2>3 DEF TablesOK
    <3>2. S \in SUBSET [key : Keys \cup {Null}, lock : 1 .. locks']
      BY <1>7, <2>1, <3>1 DEF Slot
    <3> HIDE DEF v, b, S
    <3>3. /\ \A w \in Tables :
               slots'[w] \in [Buckets(w)' -> SUBSET [key : Keys \cup {Null}, lock : 1 .. locks']]
          /\ DOMAIN slots' = Tables
      BY <1>8, <2>1, <2>3, <3>1, <3>2
    <3> QED
      BY <1>0, <2>3, <3>1, <3>3 DEF TablesOK, Buckets
  <2>4. CASE /\ locks' = locks + 1
             /\ num_expands' = [num_expands EXCEPT ![hashtable[t]] = @ + 1]
             /\ UNCHANGED <<slots, num_buckets, bucket_lock, ht, resize_lock, tables, table_new>>
    <3>1. locks' \in Nat /\ locks' >= locks
      BY <1>0, <2>4 DEF TablesOK
    <3>2. num_expands' \in [Tables -> Nat]
      BY <1>0, <2>1, <2>4 DEF TablesOK
    <3> QED
      BY <1>0, <1>7, <2>4, <3>1, <3>2 DEF TablesOK, Buckets
  <2> QED
    BY <1>9, <2>2, <2>3, <2>4 DEF Scan
<1>10. CASE WriteKey(t) \/ ChainBucket(t)
  <2> DEFINE v == bucket[t][1]
             b == bucket[t][2]
             s == Slot(key[t], new_lock[t])
             S == (slots[v][b] \ {Slot(Null, new_lock[t])}) \cup {s}
             T == slots[v][b] \cup {s}
  <2>1. v \in Tables /\ b \in Buckets(v) /\ s \in [key : Keys \cup {Null}, lock : 1 .. locks]
    BY <1>0, <1>10 DEF WriteKey, ChainBucket, CallsFit, ThreadsOK, Slot
  <2>2. /\ S \in SUBSET [key : Keys \cup {Null}, lock : 1 .. locks]
        /\ T \in SUBSET [key : Keys \cup {Null}, lock : 1 .. locks]
    <3> HIDE DEF s
    <3> QED BY <1>0, <2>1 DEF TablesOK
  <2>3. slots' = [slots EXCEPT ![v][b] = S] \/ slots' = [slots EXCEPT ![v][b] = T]
    BY <1>10 DEF WriteKey, ChainBucket
  <2>4. locks' >= locks /\ locks' \in Nat /\ locks' = locks
    BY <1>0, <1>10 DEF WriteKey, ChainBucket, TablesOK
  <2>5. /\ \A w \in Tables :
             slots'[w] \in [Buckets(w)' -> SUBSET [key : Keys \cup {Null}, lock : 1 .. locks']]
        /\ DOMAIN slots' = Tables
    <3> HIDE DEF v, b, S, T
    <3> QED BY <1>8, <1>10, <2>1, <2>2, <2>3, <2>4 DEF WriteKey, ChainBucket
  <2> QED
    BY <1>0, <1>10, <2>5 DEF WriteKey, ChainBucket, TablesOK, Buckets
<1>11. CASE ResizeTry(t)
  <2>1. CASE UNCHANGED shared
    BY <1>1, <2>1 DEF shared, content
  <2>2. CASE ~UNCHANGED shared
    <3>1. PICK by \in GrowBy :
            LET n == by * num_buckets[hashtable[t]] IN
            /\ num_buckets' = [num_buckets EXCEPT ![tables'] = n]
            /\ slots' = [slots EXCEPT ![tables'] = EmptyTable(n)]
            /\ bucket_lock' = [bucket_lock EXCEPT ![tables'] = FreeTable(n)]
      BY <1>11, <2>2 DEF ResizeTry
    <3> DEFINE n == by * num_buckets[hashtable[t]]
    <3>2. n \in Nat /\ n > 0
      <4>1. num_buckets[hashtable[t]] \in Nat \ {0}
        <5>1. pc[t] = "resize_try"
          BY <1>11 DEF ResizeTry
        <5>2. hashtable[t] \in 1 .. tables /\ hashtable[t] \in Tables
          BY <1>0, <5>1 DEF CallsFit, TablesOK
        <5> QED BY <1>0, <5>2 DEF TablesOK
      <4>2. ASSUME NEW x \in Nat \ {0}, NEW y \in Nat \ {0} PROVE x * y \in Nat /\ x * y > 0
        BY <4>2
      <4> QED BY <4>1, <4>2
    <3> HIDE DEF n
    <3>3. /\ tables' = tables + 1 /\ tables' \in Tables /\ resize_lock' = 1
          /\ UNCHANGED <<ht, table_new, num_expands, locks>>
      BY <1>0, <1>11, <2>2 DEF ResizeTry, TablesOK
    <3>4. num_buckets' \in [Tables -> Nat] /\ \A v \in 1 .. tables' : num_buckets'[v] > 0
      BY <1>0, <3>1, <3>2, <3>3 DEF TablesOK, n
    <3>5. ASSUME NEW v \in Tables
          PROVE  /\ slots'[v] \in [Buckets(v)' -> SUBSET [key : Keys \cup {Null},
                                                        lock : 1 .. locks']]
                 /\ bucket_lock'[v] \in [Buckets(v)' -> {"FREE", "UPDATE", "RESIZE"}]
      <4>1. CASE v = tables'
        <5>1. Buckets(v)' = 0 .. n - 1 /\ slots'[v] = EmptyTable(n) /\ bucket_lock'[v] = FreeTable(n)
          BY <1>0, <3>1, <3>3, <4>1 DEF TablesOK, Buckets, n
        <5> QED
          BY <5>1 DEF EmptyTable, FreeTable
      <4>2. CASE v # tables'
        BY <1>0, <3>1, <3>3, <4>2 DEF TablesOK, Buckets
      <4> QED BY <4>1, <4>2
    <3>6. DOMAIN slots' = Tables /\ DOMAIN bucket_lock' = Tables
      BY <1>0, <3>1 DEF TablesOK
    <3>7. table_new' \in [Tables -> (1 .. tables') \cup {Null}] /\ ht' \in 1 .. tables'
      BY <1>0, <3>3 DEF TablesOK
    <3> QED
      BY <1>0, <3>3, <3>4, <3>5, <3>6, <3>7 DEF TablesOK
  <2> QED BY <2>1, <2>2
<1>12. CASE CopyBucket(t)
  <2> DEFINE v == bucket[t][1]
             b == bucket[t][2]
             w == ht_new[t]
             F == [c \in Buckets(w) |->
                     slots[w][c] \cup {s \in slots[v][b] : s.key # Null /\ Hash(w, s.key) = c}]
             C == {p \in Buckets(w) \X (1 .. locks) : p[2] <= Chained(slots'[w][p[1]])}
  <2>1. w \in Tables /\ v \in Tables /\ b \in Buckets(v) /\ bucket[t] \in Tables \X Nat
    BY <1>0, <1>12 DEF CopyBucket, CallsFit, ThreadsOK, TablesOK, OneResizer, Filling
  <2>2. CASE UNCHANGED <<bucket_lock, slots, num_expands>>
    BY <1>1, <1>12, <2>2 DEF CopyBucket
  <2>3. CASE /\ LockBucket(bucket[t], Copied)
             /\ slots' = [slots EXCEPT ![w] = F]
             /\ num_expands' = [num_expands EXCEPT ![w] = Cardinality(C)]
    <3>1. UNCHANGED <<ht, resize_lock, tables, table_new, num_buckets, locks>>
      BY <1>12 DEF CopyBucket
    <3>2. Cardinality(C) \in Nat
      <4>1. IsFiniteSet(Buckets(w) \X (1 .. locks))
        <5>1. IsFiniteSet(Buckets(w))
          <6>1. num_buckets[w] - 1 \in Int
            BY <1>0, <2>1 DEF TablesOK
          <6> QED BY <6>1, FS_Interval DEF Buckets
        <5>2. IsFiniteSet(1 .. locks)
          <6>1. locks \in Int
            BY <1>0 DEF TablesOK
          <6> QED BY <6>1, FS_Interval
        <5> QED BY <5>1, <5>2, FS_Product
      <4> QED
        BY <4>1, FS_Subset, FS_CardinalityType
    <3>3. F \in [Buckets(w) -> SUBSET [key : Keys \cup {Null}, lock : 1 .. locks]]
      BY <1>0, <2>1 DEF TablesOK
    <3> HIDE DEF F, C
    <3>4. num_expands' \in [Tables -> Nat]
      BY <1>0, <2>3, <3>2 DEF TablesOK
    <3>5. \A x \in Tables :
            slots'[x] \in [Buckets(x)' -> SUBSET [key : Keys \cup {Null}, lock : 1 .. locks']]
      BY <1>0, <2>1, <2>3, <3>1, <3>3 DEF TablesOK, Buckets
    <3>6. /\ \A x \in Tables :
               bucket_lock'[x] \in [Buckets(x)' -> {"FREE", "UPDATE", "RESIZE"}]
          /\ DOMAIN bucket_lock' = Tables
      BY <1>0, <1>4, <2>1, <2>3, <3>1 DEF LockBucket, Copied, TablesOK
    <3> QED
      BY <1>0, <2>3, <3>1, <3>4, <3>5, <3>6 DEF TablesOK
  <2> QED
    BY <1>12, <2>2, <2>3 DEF CopyBucket
<1>13. CASE Publish(t) \/ LinkNew(t) \/ ResizeUnlock(t)
  <2>1. pc[t] \in {"publish", "link"} => hashtable[t] \in Tables
    BY <1>0, <1>13 DEF TablesOK, CallsFit
  <2>2. pc[t] \in {"publish", "link"} => ht_new[t] \in 1 .. tables
    BY <1>0, <1>13 DEF TablesOK, OneResizer, Filling
  <2> QED
    BY <1>0, <1>13, <2>1, <2>2 DEF Publish, LinkNew, ResizeUnlock, TablesOK, Buckets, content
<1> QED
  BY <1>2, <1>3, <1>5, <1>6, <1>9, <1>10, <1>11, <1>12, <1>13 DEF Step

(* The table in use, the tables and the locks only go up, and a table      *)
(* keeps its size.                                                         *)
LEMMA Grows ==
  ASSUME IInv, NEW t \in Threads, Call(t) \/ Step(t)
  PROVE  /\ ht' \in {ht, ht + 1} /\ tables' \in {tables, tables + 1} /\ locks' \in {locks, locks + 1}
         /\ \A v \in 1 .. tables : num_buckets'[v] = num_buckets[v]
<1>0. TypeOK /\ TablesOK /\ OneResizer
  BY DEF IInv, TypeOK
<1>1. CASE Call(t) \/ Look(t) \/ EnterImpl(t) \/ AwaitNew(t) \/ Reload(t) \/ ResizeRead(t)
  BY <1>1 DEF Call, Look, EnterImpl, AwaitNew, Reload, ResizeRead, shared, content
<1>2. CASE AcquireBucket(t) \/ Release(t) \/ LinkNew(t) \/ ResizeUnlock(t)
  BY <1>2 DEF AcquireBucket, Release, LinkNew, ResizeUnlock, content
<1>3. CASE Scan(t)
  BY <1>3 DEF Scan, content
<1>4. CASE WriteKey(t) \/ ChainBucket(t) \/ CopyBucket(t)
  BY <1>4 DEF WriteKey, ChainBucket, CopyBucket
<1>5. CASE ResizeTry(t)
  <2>1. CASE UNCHANGED shared
    BY <2>1 DEF shared, content
  <2>2. CASE ~UNCHANGED shared
    <3>1. /\ tables' = tables + 1 /\ UNCHANGED <<ht, locks>>
          /\ \E n : num_buckets' = [num_buckets EXCEPT ![tables'] = n]
      BY <1>5, <2>2 DEF ResizeTry
    <3> QED
      BY <1>0, <3>1 DEF TablesOK, Tables
  <2> QED BY <2>1, <2>2
<1>6. CASE Publish(t)
  BY <1>0, <1>6 DEF Publish, OneResizer, Filling, content
<1> QED
  BY <1>1, <1>2, <1>3, <1>4, <1>5, <1>6 DEF Step

(* So the address of a bucket stays.                                       *)
LEMMA HashStays ==
  ASSUME IInv, NEW t \in Threads, Call(t) \/ Step(t)
  PROVE  \A v \in 1 .. tables :
           /\ Buckets(v)' = Buckets(v) /\ Threshold(v)' = Threshold(v)
           /\ \A k : Hash(v, k)' = Hash(v, k)
  BY Grows, SameHash

(* What LockOf returns is the lock of the address.                         *)
LEMMA LockOfIs ==
  ASSUME TypeOK, NEW v \in 1 .. tables, NEW k \in Keys, Find(v, k) # {}
  PROVE  LockOf(v, k) \in 1 .. locks /\ Has(v, k, LockOf(v, k))
<1> DEFINE s == CHOOSE s \in Find(v, k) : TRUE
<1>1. s \in Find(v, k)
  OBVIOUS
<1>2. Hash(v, k) \in Buckets(v) /\ v \in Tables
  <2>1. v \in Tables
    BY Constants DEF TypeOK, TablesOK, Tables
  <2> QED BY <2>1, HashIn
<1>3. s \in slots[v][Hash(v, k)] /\ s.key = k /\ s \in [key : Keys \cup {Null}, lock : 1 .. locks]
  BY <1>1, <1>2 DEF Find, TypeOK, TablesOK
<1>4. s = Slot(k, s.lock)
  BY <1>3 DEF Slot
<1> QED
  BY <1>3, <1>4 DEF LockOf, Has

(* ... and if LockOf has nothing to choose from, nothing has the address.  *)
LEMMA FindIs ==
  ASSUME NEW v, NEW k, NEW l, Has(v, k, l) PROVE Find(v, k) # {}
  BY DEF Has, Find, Slot

LEMMA ThreadsStep ==
  ASSUME IInv, NEW t \in Threads, Call(t) \/ Step(t)
  PROVE  ThreadsOK'
<1> USE Constants DEF Goto
<1>0. TypeOK /\ TablesOK /\ ThreadsOK /\ CallsFit /\ OneResizer
  BY DEF IInv, TypeOK
<1>a. ht \in 1 .. tables /\ tables \in Nat /\ locks \in Nat /\ 1 .. tables \subseteq Tables
  BY <1>0 DEF TablesOK, Tables
<1>b. /\ ht' \in {ht, ht + 1} /\ tables' \in {tables, tables + 1} /\ locks' \in {locks, locks + 1}
      /\ 1 .. tables \subseteq 1 .. tables' /\ 1 .. locks \subseteq 1 .. locks'
  BY <1>a, Grows
<1>c. \A v \in 1 .. tables : Buckets(v)' = Buckets(v)
  BY HashStays
<1>d. \A v \in 1 .. tables : Buckets(v) \subseteq Nat
  BY <1>0, <1>a DEF TablesOK, Buckets
<1>e. \A v \in 1 .. tables, k \in Keys : Hash(v, k) \in Buckets(v)
  BY <1>0, HashIn
<1>f. \A v \in 1 .. tables : 0 \in Buckets(v)
  BY <1>0, <1>a DEF TablesOK, Buckets
<1>g. \A u \in Threads :
        pc[u] # "idle" => /\ key[u] \in Keys /\ bucket[u] \in Tables \X Nat
                          /\ bucket[u][1] \in 1 .. tables /\ hashtable[u] \in 1 .. tables
                          /\ bucket[u][2] \in Buckets(bucket[u][1])
                          /\ bucket[u][2] \in 0 .. num_buckets'[bucket[u][1]] - 1
  BY <1>0, <1>a, Grows DEF CallsFit, ThreadsOK, Buckets
<1>1. ASSUME NEW l \in (1 .. locks') \cup {Null}, Return(t, l), pc[t] # "idle"
      PROVE  ThreadsOK'
  <2>1. /\ pc' \in [Threads -> Labels]
        /\ op' \in [Threads -> {"put_type", "put_init", "get", Null}]
        /\ key' \in [Threads -> Keys \cup {Null}]
        /\ hashtable' \in [Threads -> (1 .. tables') \cup {Null}]
        /\ ht_new' \in [Threads -> (1 .. tables') \cup {Null}]
    BY <1>0, <1>1, <1>b DEF ThreadsOK, Return, Labels
  <2>2. /\ new_lock' \in [Threads -> (1 .. locks') \cup {Null}]
        /\ resize' \in [Threads -> BOOLEAN]
        /\ bucket' \in [Threads -> (Tables \X Nat) \cup {Null}]
    BY <1>0, <1>1, <1>b DEF ThreadsOK, Return
  <2>3. got' \in [Keys -> SUBSET ((1 .. locks') \cup {Null})]
    <3>1. key[t] \in Keys
      BY <1>1, <1>g
    <3>2. got \in [Keys -> SUBSET ((1 .. locks') \cup {Null})]
      BY <1>0, <1>b DEF ThreadsOK
    <3> QED
      BY <1>1, <3>1, <3>2 DEF Return
  <2>4. \A u \in Threads : pc'[u] # "idle" =>
          bucket'[u] \in Tables \X Nat /\ bucket'[u][2] \in 0 .. num_buckets'[bucket'[u][1]] - 1
    <3> SUFFICES ASSUME NEW u \in Threads, pc'[u] # "idle"
                 PROVE  bucket'[u] \in Tables \X Nat /\ bucket'[u][2] \in 0 .. num_buckets'[bucket'[u][1]] - 1
      OBVIOUS
    <3>1. u # t /\ pc'[u] = pc[u] /\ bucket'[u] = bucket[u]
      BY <1>0, <1>1 DEF Return, ThreadsOK
    <3> QED BY <3>1, <1>g
  <2> QED
    BY <2>1, <2>2, <2>3, <2>4 DEF ThreadsOK, Buckets
<1>h. ASSUME UNCHANGED <<num_buckets, tables, locks>>, ht_new' = ht_new, got' = got,
             NEW v \in 1 .. tables, NEW b \in Buckets(v), NEW h \in 1 .. tables,
             NEW k \in Keys, NEW o \in {"put_type", "put_init", "get"}, NEW l \in Labels,
             new_lock' = new_lock, resize' = resize,
             key' = [key EXCEPT ![t] = k], hashtable' = [hashtable EXCEPT ![t] = h],
             bucket' = [bucket EXCEPT ![t] = <<v, b>>],
             op' \in [Threads -> {"put_type", "put_init", "get", Null}],
             pc' = [pc EXCEPT ![t] = l]
      PROVE  ThreadsOK'
  <2>1. v \in Tables /\ b \in Nat
    BY <1>h, <1>a, <1>d
  <2>2. bucket' \in [Threads -> (Tables \X Nat) \cup {Null}]
    BY <1>0, <1>h, <2>1 DEF ThreadsOK
  <2>3. \A u \in Threads : pc'[u] # "idle" =>
          bucket'[u] \in Tables \X Nat /\ bucket'[u][2] \in 0 .. num_buckets'[bucket'[u][1]] - 1
    <3> SUFFICES ASSUME NEW u \in Threads, pc'[u] # "idle"
                 PROVE  bucket'[u] \in Tables \X Nat
                        /\ bucket'[u][2] \in 0 .. num_buckets'[bucket'[u][1]] - 1
      OBVIOUS
    <3>1. CASE u = t
      <4>1. bucket'[u] = <<v, b>>
        BY <1>0, <1>h, <3>1 DEF ThreadsOK
      <4>2. num_buckets'[v] = num_buckets[v]
        BY <1>h
      <4> QED BY <2>1, <4>1, <4>2 DEF Buckets
    <3>2. CASE u # t
      BY <1>0, <1>h, <1>g, <3>2 DEF ThreadsOK
    <3> QED BY <3>1, <3>2
  <2> QED
    BY <1>0, <1>h, <2>2, <2>3 DEF ThreadsOK, Buckets
<1>2. CASE Call(t)
  <2>1. PICK k \in Keys :
          /\ key' = [key EXCEPT ![t] = k]
          /\ hashtable' = [hashtable EXCEPT ![t] = ht]
          /\ bucket' = [bucket EXCEPT ![t] = <<ht, Hash(ht, k)>>]
          /\ \E o \in {"put_type", "put_init", "get"}, l \in {"look", "acquire"} :
               op' = [op EXCEPT ![t] = o] /\ pc' = [pc EXCEPT ![t] = l]
    BY <1>2 DEF Call
  <2>2. Hash(ht, k) \in Buckets(ht)
    BY <1>a, <1>e
  <2>3. op' \in [Threads -> {"put_type", "put_init", "get", Null}]
    BY <1>0, <2>1 DEF ThreadsOK
  <2> QED
    BY <1>2, <1>a, <1>h, <2>1, <2>2, <2>3 DEF Call, shared, content, Labels
<1>i. ASSUME UNCHANGED <<num_buckets, tables, locks, local, got>>,
             NEW l \in Labels, pc' = [pc EXCEPT ![t] = l], pc[t] # "idle"
      PROVE  ThreadsOK'
  BY <1>0, <1>g, <1>i DEF ThreadsOK, local, Buckets
<1>3. CASE Look(t)
  <2>1. CASE Goto(t, "enter") /\ UNCHANGED <<local, got>>
    BY <1>3, <1>i, <2>1 DEF Look, shared, content, Labels
  <2>2. CASE Return(t, Null)
    BY <1>1, <1>3, <2>2 DEF Look
  <2>3. CASE Find(hashtable[t], key[t]) # {} /\ Return(t, LockOf(hashtable[t], key[t]))
    <3>1. LockOf(hashtable[t], key[t]) \in 1 .. locks'
      BY <1>0, <1>3, <1>b, <1>g, <2>3, LockOfIs DEF Look
    <3> QED BY <1>1, <1>3, <2>3, <3>1 DEF Look
  <2> QED BY <1>3, <2>1, <2>2, <2>3 DEF Look
<1>4. CASE EnterImpl(t) \/ AwaitNew(t)
  BY <1>0, <1>4, <1>a, <1>g
  DEF EnterImpl, AwaitNew, ThreadsOK, Labels, shared, content, local, Buckets
<1>5. CASE Reload(t) \/ ResizeRead(t)
  <2>1. PICK b \in Buckets(ht) : bucket' = [bucket EXCEPT ![t] = <<ht, b>>]
    BY <1>5, <1>a, <1>e, <1>f, <1>g DEF Reload, ResizeRead
  <2>2. PICK l \in Labels : pc' = [pc EXCEPT ![t] = l]
    BY <1>5 DEF Reload, ResizeRead, Labels
  <2>3. key[t] \in Keys /\ op' = op /\ key' = [key EXCEPT ![t] = key[t]]
    BY <1>0, <1>5, <1>g DEF Reload, ResizeRead, ThreadsOK
  <2>4. op' \in [Threads -> {"put_type", "put_init", "get", Null}]
    BY <1>0, <2>3 DEF ThreadsOK
  <2>5. hashtable' = [hashtable EXCEPT ![t] = ht] /\ UNCHANGED <<num_buckets, tables, locks>>
        /\ ht_new' = ht_new /\ got' = got /\ new_lock' = new_lock /\ resize' = resize
    BY <1>5 DEF Reload, ResizeRead, shared, content
  <2> QED
    BY <1>a, <1>h, <2>1, <2>2, <2>3, <2>4, <2>5
<1>6. CASE AcquireBucket(t)
  BY <1>0, <1>6, <1>g DEF AcquireBucket, ThreadsOK, Labels, content, local, Buckets
<1>7. CASE Scan(t)
  <2>1. CASE Present(bucket[t][1], key[t]) /\ Return(t, LockOf(bucket[t][1], key[t]))
    <3>1. LockOf(bucket[t][1], key[t]) \in 1 .. locks'
      BY <1>0, <1>7, <1>b, <1>g, <2>1, LockOfIs DEF Scan, Present
    <3> QED BY <1>1, <1>7, <2>1, <3>1 DEF Scan
  <2>2. CASE /\ locks' = locks + 1 /\ new_lock' = [new_lock EXCEPT ![t] = locks']
             /\ UNCHANGED <<num_buckets, op, key, hashtable, bucket, ht_new, got, tables>>
             /\ \E l \in {"write_key", "chain"} : Goto(t, l)
             /\ \E r \in BOOLEAN : resize' = [resize EXCEPT ![t] = r]
    <3>1. /\ new_lock' \in [Threads -> (1 .. locks') \cup {Null}]
          /\ got' \in [Keys -> SUBSET ((1 .. locks') \cup {Null})]
      BY <1>0, <1>a, <1>b, <2>2 DEF ThreadsOK
    <3> QED
      BY <1>0, <1>7, <1>g, <2>2, <3>1 DEF Scan, ThreadsOK, Labels, Buckets
  <2>3. ~UNCHANGED resize \/ UNCHANGED resize
    OBVIOUS
  <2>4. UNCHANGED resize => resize' = [resize EXCEPT ![t] = resize[t]] /\ resize[t] \in BOOLEAN
    BY <1>0 DEF ThreadsOK
  <2> QED BY <1>7, <2>1, <2>2, <2>4 DEF Scan, AtThreshold
<1>8. CASE WriteKey(t) \/ ChainBucket(t)
  BY <1>0, <1>8, <1>g DEF WriteKey, ChainBucket, ThreadsOK, Labels, local, Buckets
<1>9. CASE Release(t)
  <2>1. CASE Return(t, new_lock[t])
    BY <1>0, <1>1, <1>9, <1>b, <2>1 DEF Release, ThreadsOK
  <2>2. CASE Goto(t, "resize_read") /\ UNCHANGED <<local, got>>
    BY <1>0, <1>9, <1>g, <2>2 DEF Release, ThreadsOK, Labels, content, local, Buckets
  <2> QED BY <1>9, <2>1, <2>2 DEF Release
<1>10. CASE ResizeTry(t)
  <2>1. CASE Return(t, new_lock[t])
    BY <1>0, <1>1, <1>10, <1>b, <2>1 DEF ResizeTry, ThreadsOK
  <2>2. CASE /\ Goto(t, "copy") /\ tables < MaxTables /\ tables' = tables + 1
             /\ ht_new' = [ht_new EXCEPT ![t] = tables']
             /\ UNCHANGED <<locks, op, key, hashtable, bucket, new_lock, resize, got>>
    <3>1. /\ ht_new' \in [Threads -> (1 .. tables') \cup {Null}]
          /\ hashtable' \in [Threads -> (1 .. tables') \cup {Null}]
      BY <1>0, <1>a, <1>b, <2>2 DEF ThreadsOK
    <3> QED
      BY <1>0, <1>10, <1>g, <2>2, <3>1 DEF ResizeTry, ThreadsOK, Labels, Buckets
  <2> QED BY <1>10, <2>1, <2>2 DEF ResizeTry
<1>11. CASE CopyBucket(t)
  <2> DEFINE v == bucket[t][1]
             b == bucket[t][2]
  <2>1. CASE MoreBuckets(v, b) /\ bucket' = [bucket EXCEPT ![t] = <<v, b + 1>>] /\ UNCHANGED pc
    <3>1. v \in Tables /\ b \in Nat /\ b + 1 \in Nat /\ b + 1 \in 0 .. num_buckets'[v] - 1
      BY <1>0, <1>11, <1>a, <1>g, <2>1, Grows DEF CopyBucket, MoreBuckets, TablesOK
    <3>2. bucket' \in [Threads -> (Tables \X Nat) \cup {Null}]
      BY <1>0, <2>1, <3>1 DEF ThreadsOK
    <3>3. \A u \in Threads : pc'[u] # "idle" =>
            bucket'[u] \in Tables \X Nat
            /\ bucket'[u][2] \in 0 .. num_buckets'[bucket'[u][1]] - 1
      BY <1>0, <1>11, <1>g, <2>1, <3>1 DEF CopyBucket, ThreadsOK
    <3> HIDE DEF v, b
    <3> QED
      BY <1>0, <1>11, <2>1, <3>2, <3>3 DEF CopyBucket, ThreadsOK, Buckets
  <2>2. CASE Goto(t, "publish") /\ UNCHANGED bucket
    BY <1>i, <1>11, <2>2 DEF CopyBucket, Labels, local
  <2> QED BY <1>11, <2>1, <2>2 DEF CopyBucket
<1>12. CASE Publish(t)
  <2>1. resize' \in [Threads -> BOOLEAN]
    BY <1>0, <1>12 DEF Publish, ThreadsOK
  <2> QED
    BY <1>0, <1>12, <1>g, <2>1 DEF Publish, ThreadsOK, Labels, content, Buckets
<1>14. CASE LinkNew(t)
  BY <1>i, <1>14 DEF LinkNew, Labels, content
<1>13. CASE ResizeUnlock(t)
  <2>1. CASE Return(t, new_lock[t])
    BY <1>0, <1>1, <1>13, <1>b, <2>1 DEF ResizeUnlock, ThreadsOK
  <2>2. CASE Goto(t, "resize_read") /\ UNCHANGED <<local, got>>
    BY <1>0, <1>13, <1>g, <2>2 DEF ResizeUnlock, ThreadsOK, Labels, content, local, Buckets
  <2> QED BY <1>13, <2>1, <2>2 DEF ResizeUnlock
<1> QED
  BY <1>2, <1>3, <1>4, <1>5, <1>6, <1>7, <1>8, <1>9, <1>10, <1>11, <1>12, <1>13, <1>14 DEF Step

----------------------------------------------------------------------------
(* The parts of the invariant, one by one.                                 *)

(* A call reads h->ht again at each of its turns, and looks for its bucket *)
(* in what it has read.                                                    *)
LEMMA CallsStep ==
  ASSUME IInv, NEW t \in Threads, Call(t) \/ Step(t)
  PROVE  CallsFit'
<1> USE Constants DEF Goto
<1>0. TypeOK /\ TablesOK /\ ThreadsOK /\ CallsFit /\ WritersFit /\ OneResizer
  BY DEF IInv, TypeOK
<1>a. ht \in 1 .. tables /\ ht \in Nat /\ tables \in Nat /\ locks \in Nat
      /\ 1 .. tables \subseteq Tables
  BY <1>0 DEF TablesOK, Tables
<1>b. ht' \in {ht, ht + 1} /\ locks' \in {locks, locks + 1} /\ 1 .. ht \subseteq 1 .. ht'
      /\ 1 .. locks \subseteq 1 .. locks'
  BY <1>a, Grows
<1>c. \A v \in 1 .. tables : num_buckets'[v] = num_buckets[v]
  BY Grows
<1>d. ThreadsOK'
  BY ThreadsStep
<1> USE DEF CallsFit, ThreadsOK, Holding, Made, Resizing, Hash
<1>1. ASSUME NEW l, Return(t, l), locks' = locks PROVE CallsFit'
  BY <1>0, <1>1, <1>a, <1>b, <1>c DEF Return
<1>2. CASE Call(t)
  <2>1. PICK k \in Keys :
          /\ key' = [key EXCEPT ![t] = k]
          /\ hashtable' = [hashtable EXCEPT ![t] = ht]
          /\ bucket' = [bucket EXCEPT ![t] = <<ht, Hash(ht, k)>>]
          /\ Goto(t, "look") \/ Goto(t, "acquire")
    BY <1>2 DEF Call
  <2>2. UNCHANGED <<ht, locks, new_lock, num_buckets>>
    BY <1>2 DEF Call, shared, content
  <2> QED BY <1>0, <1>a, <2>1, <2>2
<1>3. CASE Look(t)
  <2>1. CASE Goto(t, "enter") /\ UNCHANGED <<local, got>>
    BY <1>0, <1>3, <2>1 DEF Look, local, shared, content
  <2> QED BY <1>1, <1>3, <2>1 DEF Look, shared, content
<1>4. CASE EnterImpl(t)
  BY <1>0, <1>4, <1>a DEF EnterImpl, shared, content
<1>5. CASE AcquireBucket(t) \/ AwaitNew(t)
  BY <1>0, <1>5 DEF AcquireBucket, AwaitNew, local, shared, content
<1>6. CASE Reload(t)
  BY <1>0, <1>6, <1>a DEF Reload, shared, content
<1>7. CASE Scan(t)
  <2>1. CASE \E l : Return(t, l) /\ UNCHANGED content
    BY <1>1, <2>1 DEF content
  <2>2. CASE /\ locks' = locks + 1 /\ new_lock' = [new_lock EXCEPT ![t] = locks']
             /\ Goto(t, "write_key") \/ Goto(t, "chain")
             /\ UNCHANGED <<ht, num_buckets, key, hashtable, bucket>>
    <3>1. locks' \in 1 .. locks'
      BY <1>a, <2>2
    <3> QED BY <1>0, <1>7, <1>b, <2>2, <3>1 DEF Scan
  <2> QED BY <1>7, <2>1, <2>2 DEF Scan
<1>8. CASE WriteKey(t) \/ ChainBucket(t)
  BY <1>0, <1>8 DEF WriteKey, ChainBucket, local
<1>9. CASE Release(t)
  <2>1. CASE Goto(t, "resize_read") /\ UNCHANGED <<local, got>>
    BY <1>0, <1>9, <2>1 DEF Release, local, content
  <2> QED BY <1>1, <1>9, <2>1 DEF Release, content
<1>10. CASE ResizeRead(t)
  BY <1>0, <1>10, <1>a DEF ResizeRead, shared, content
<1>11. CASE ResizeTry(t)
  <2>1. CASE Goto(t, "copy") /\ UNCHANGED <<ht, locks, key, hashtable, bucket, new_lock>>
    BY <1>0, <1>11, <1>a, <1>c, <2>1 DEF ResizeTry
  <2> QED BY <1>1, <1>11, <2>1 DEF ResizeTry, shared, content
<1>12. CASE CopyBucket(t)
  BY <1>0, <1>12 DEF CopyBucket
<1>13. CASE Publish(t)
  BY <1>0, <1>13, <1>a, <1>b DEF Publish, content
<1>14. CASE LinkNew(t)
  BY <1>0, <1>14 DEF LinkNew, content, local
<1>15. CASE ResizeUnlock(t)
  <2>1. CASE Goto(t, "resize_read") /\ UNCHANGED <<local, got>>
    BY <1>0, <1>15, <2>1 DEF ResizeUnlock, local, content
  <2> QED BY <1>1, <1>15, <2>1 DEF ResizeUnlock, content
<1> QED
  BY <1>2, <1>3, <1>4, <1>5, <1>6, <1>7, <1>8, <1>9, <1>10, <1>11, <1>12, <1>13, <1>14, <1>15
  DEF Step

(* Setting the state of one bucket leaves the others as they are.          *)
LEMMA OneBucket ==
  ASSUME TablesOK, NEW v \in Tables, NEW b \in Buckets(v), NEW x,
         LockBucket(<<v, b>>, x)
  PROVE  \A w \in Tables : \A c \in Buckets(w) :
           bucket_lock'[w][c] = IF w = v /\ c = b THEN x ELSE bucket_lock[w][c]
  BY DEF TablesOK, LockBucket

(* A bucket is taken when it is free, and that is only in the table in     *)
(* use; it is locked for good when it is free; and the table is replaced   *)
(* when all of it is locked for good, so that nobody holds any of it.      *)
LEMMA WritersStep ==
  ASSUME IInv, NEW t \in Threads, Call(t) \/ Step(t)
  PROVE  WritersFit'
<1> USE Constants DEF Goto
<1>0. TypeOK /\ TablesOK /\ ThreadsOK /\ CallsFit /\ WritersFit /\ OneResizer /\ BucketsFit
  BY DEF IInv, TypeOK
<1>a. ht \in Tables /\ ht \in Nat /\ ht \in 1 .. tables /\ 1 .. tables \subseteq Tables
  BY <1>0 DEF TablesOK, Tables
<1>b. \A u \in Threads : pc[u] # "idle" =>
        /\ bucket[u] = <<bucket[u][1], bucket[u][2]>>
        /\ bucket[u][1] \in Tables /\ bucket[u][1] \in 1 .. hashtable[u] /\ hashtable[u] \in 1 .. ht
        /\ bucket[u][2] \in Buckets(bucket[u][1])
  BY <1>0 DEF ThreadsOK, CallsFit
<1>c. \A u \in Threads : pc[u] \in Holding =>
        /\ hashtable[u] = ht /\ bucket[u] = <<ht, bucket[u][2]>> /\ bucket[u][2] \in Buckets(ht)
        /\ bucket_lock[ht][bucket[u][2]] = "UPDATE"
  BY <1>0, <1>b DEF WritersFit, Holding
<1> USE DEF WritersFit, Holding
<1>1. ASSUME UNCHANGED <<ht, bucket_lock>>,
             \A u \in Threads : u # t => UNCHANGED <<pc[u], hashtable[u], bucket[u]>>,
             \/ pc'[t] \notin Holding
             \/ pc[t] \in Holding /\ UNCHANGED <<hashtable[t], bucket[t]>>
      PROVE  WritersFit'
  BY <1>0, <1>1
<1>2. ASSUME NEW l, Return(t, l), UNCHANGED <<ht, bucket_lock>> PROVE WritersFit'
  BY <1>0, <1>1, <1>2 DEF Return, ThreadsOK
<1>3. CASE Call(t)
  BY <1>0, <1>1, <1>3 DEF Call, ThreadsOK, shared
<1>4. CASE Look(t)
  BY <1>0, <1>1, <1>2, <1>4 DEF Look, ThreadsOK, shared, local
<1>5. CASE EnterImpl(t) \/ AwaitNew(t) \/ Reload(t) \/ ResizeRead(t)
  BY <1>0, <1>1, <1>5 DEF EnterImpl, AwaitNew, Reload, ResizeRead, ThreadsOK, shared, local
<1>6. CASE WriteKey(t) \/ ChainBucket(t) \/ LinkNew(t)
  BY <1>0, <1>1, <1>6 DEF WriteKey, ChainBucket, LinkNew, ThreadsOK, local
<1>7. CASE ResizeUnlock(t)
  BY <1>0, <1>1, <1>2, <1>7 DEF ResizeUnlock, ThreadsOK, local
<1>8. CASE AcquireBucket(t)
  <2>1. CASE UNCHANGED bucket_lock /\ Goto(t, "wait")
    BY <1>0, <1>1, <1>8, <2>1 DEF AcquireBucket, ThreadsOK, local
  <2>2. CASE /\ bucket_lock[bucket[t][1]][bucket[t][2]] = "FREE"
             /\ LockBucket(bucket[t], "UPDATE") /\ Goto(t, "scan")
    <3>1. bucket[t][1] = ht /\ hashtable[t] = ht /\ bucket[t] = <<ht, bucket[t][2]>>
          /\ bucket[t][2] \in Buckets(ht)
      BY <1>0, <1>8, <1>a, <1>b, <2>2 DEF AcquireBucket, BucketsFit
    <3>2. \A c \in Buckets(ht) :
            bucket_lock'[ht][c] = IF c = bucket[t][2] THEN "UPDATE" ELSE bucket_lock[ht][c]
      <4>1. LockBucket(<<ht, bucket[t][2]>>, "UPDATE")
        BY <2>2, <3>1 DEF LockBucket
      <4> QED BY <1>0, <1>a, <3>1, <4>1, OneBucket
    <3> QED
      BY <1>0, <1>8, <1>c, <2>2, <3>1, <3>2 DEF AcquireBucket, ThreadsOK, local
  <2> QED BY <1>8, <2>1, <2>2 DEF AcquireBucket
<1>9. ASSUME pc[t] \in Holding, ReleaseBucket(t), ht' = ht, pc'[t] \notin Holding,
             \A u \in Threads : u # t => UNCHANGED <<pc[u], hashtable[u], bucket[u]>>
      PROVE  WritersFit'
  <2>1. \A c \in Buckets(ht) :
          bucket_lock'[ht][c] = IF c = bucket[t][2] THEN "FREE" ELSE bucket_lock[ht][c]
    <3>1. LockBucket(<<ht, bucket[t][2]>>, "FREE") /\ bucket[t][2] \in Buckets(ht)
      BY <1>c, <1>9 DEF ReleaseBucket, LockBucket
    <3> QED BY <1>0, <1>a, <3>1, OneBucket
  <2>2. \A u \in Threads : pc'[u] \in Holding =>
          u # t /\ pc[u] \in Holding /\ bucket[u][2] # bucket[t][2]
    BY <1>0, <1>c, <1>9
  <2>3. \A u \in Threads : pc'[u] \in Holding =>
          /\ hashtable'[u] = ht /\ bucket'[u] = bucket[u] /\ bucket[u][1] = ht
          /\ bucket_lock'[ht][bucket[u][2]] = "UPDATE"
    <3> SUFFICES ASSUME NEW u \in Threads, pc'[u] \in Holding
                 PROVE  /\ hashtable'[u] = ht /\ bucket'[u] = bucket[u] /\ bucket[u][1] = ht
                        /\ bucket_lock'[ht][bucket[u][2]] = "UPDATE"
      OBVIOUS
    <3>1. /\ u # t /\ pc[u] \in Holding /\ bucket[u][2] # bucket[t][2]
          /\ hashtable'[u] = hashtable[u] /\ bucket'[u] = bucket[u]
      BY <1>9, <2>2
    <3>2. hashtable[u] = ht /\ bucket[u][1] = ht /\ bucket[u][2] \in Buckets(ht)
          /\ bucket_lock[ht][bucket[u][2]] = "UPDATE"
      BY <1>c, <3>1
    <3> QED BY <2>1, <3>1, <3>2
  <2>4. \A u \in Threads :
          pc'[u] \in Holding =>
            hashtable'[u] = ht' /\ bucket'[u][1] = ht' /\ bucket_lock'[ht'][bucket'[u][2]] = "UPDATE"
    BY <1>9, <2>3
  <2>5. \A u, x \in Threads :
          pc'[u] \in Holding /\ pc'[x] \in Holding /\ bucket'[u] = bucket'[x] => u = x
    BY <1>0, <2>2, <2>3
  <2> QED
    BY <2>4, <2>5
<1>10. CASE Scan(t)
  <2>1. CASE /\ Goto(t, "write_key") \/ Goto(t, "chain")
             /\ UNCHANGED <<ht, bucket_lock, hashtable, bucket>>
    BY <1>0, <1>1, <1>10, <2>1 DEF Scan, ThreadsOK
  <2>2. CASE \E l : Return(t, l) /\ ReleaseBucket(t)
    BY <1>0, <1>9, <1>10, <2>2 DEF Scan, ThreadsOK, Return
  <2> QED
    BY <1>10, <2>1, <2>2 DEF Scan
<1>11. CASE Release(t)
  BY <1>0, <1>9, <1>11 DEF Release, ThreadsOK, Return, local
<1>12. CASE ResizeTry(t)
  <2>1. CASE UNCHANGED shared
    BY <1>0, <1>2, <1>12, <2>1 DEF ResizeTry, shared, ThreadsOK, TablesOK
  <2>2. CASE ~UNCHANGED shared
    <3>1. /\ tables' = tables + 1 /\ UNCHANGED <<ht, hashtable, bucket>> /\ Goto(t, "copy")
          /\ \E F : bucket_lock' = [bucket_lock EXCEPT ![tables'] = F]
      BY <1>12, <2>2 DEF ResizeTry
    <3>2. bucket_lock'[ht] = bucket_lock[ht]
      BY <1>0, <1>a, <3>1 DEF TablesOK
    <3> QED BY <1>0, <3>1, <3>2 DEF ThreadsOK
  <2> QED BY <2>1, <2>2
<1>13. CASE CopyBucket(t)
  <2>1. CASE UNCHANGED bucket_lock
    BY <1>0, <1>1, <1>13, <2>1 DEF CopyBucket, ThreadsOK
  <2>2. CASE bucket_lock[bucket[t][1]][bucket[t][2]] = "FREE" /\ LockBucket(bucket[t], Copied)
    <3>1. bucket[t][1] = ht /\ bucket[t] = <<ht, bucket[t][2]>> /\ bucket[t][2] \in Buckets(ht)
      BY <1>0, <1>13, <1>b DEF CopyBucket, OneResizer, Filling
    <3>2. \A c \in Buckets(ht) :
            bucket_lock'[ht][c] = IF c = bucket[t][2] THEN Copied ELSE bucket_lock[ht][c]
      <4>1. LockBucket(<<ht, bucket[t][2]>>, Copied)
        BY <2>2, <3>1 DEF LockBucket
      <4> QED BY <1>0, <1>a, <3>1, <4>1, OneBucket
    <3>3. /\ pc'[t] \notin Holding /\ UNCHANGED <<ht, hashtable>>
          /\ \A u \in Threads : u # t => UNCHANGED <<pc[u], bucket[u]>>
      BY <1>0, <1>13 DEF CopyBucket, ThreadsOK
    <3>4. \A u \in Threads : pc'[u] \in Holding =>
            u # t /\ pc[u] \in Holding /\ bucket[u][2] # bucket[t][2]
      BY <1>c, <2>2, <3>1, <3>3
    <3> QED
      BY <1>0, <1>c, <3>2, <3>3, <3>4
  <2> QED BY <1>13, <2>1, <2>2 DEF CopyBucket
<1>14. CASE Publish(t)
  <2>1. \A u \in Threads : pc[u] \notin Holding
    BY <1>0, <1>14, <1>c DEF Publish, BucketsFit
  <2> QED
    BY <1>0, <1>14, <2>1 DEF Publish, ThreadsOK
<1> QED
  BY <1>3, <1>4, <1>5, <1>6, <1>7, <1>8, <1>10, <1>11, <1>12, <1>13, <1>14 DEF Step

(* The writer that reaches the threshold finds nobody charged; nobody else *)
(* is, until it has published a new table or has given up.                 *)
LEMMA OneResizerStep ==
  ASSUME IInv, NEW t \in Threads, Call(t) \/ Step(t)
  PROVE  OneResizer'
<1> USE Constants DEF Goto
<1>0. TypeOK /\ TablesOK /\ ThreadsOK /\ CallsFit /\ WritersFit /\ OneResizer
  BY DEF IInv, TypeOK
<1>a. /\ ht \in Tables /\ ht \in Nat /\ ht \in 1 .. tables /\ tables \in Nat
      /\ num_expands[ht] \in Nat /\ num_buckets[ht] \in Nat
  BY <1>0 DEF TablesOK, Tables
<1>b. num_buckets'[ht] = num_buckets[ht]
  BY <1>a, Grows
<1> USE DEF OneResizer, Filling, Resizing, Charged, Threshold
<1>1. ASSUME UNCHANGED <<ht, tables, resize_lock, num_expands, num_buckets>>,
             \A u \in Threads : u # t =>
               UNCHANGED <<pc[u], hashtable[u], bucket[u], resize[u], ht_new[u]>>,
             pc[t] \notin Filling, pc'[t] \notin {"resize_read", "resize_try"} \cup Resizing,
             resize'[t] => resize[t] /\ pc'[t] \in Charged
      PROVE  OneResizer'
  BY <1>0, <1>1
<1>2. ASSUME NEW l, Return(t, l), pc[t] \notin Filling,
             UNCHANGED <<ht, tables, resize_lock, num_expands, num_buckets>>
      PROVE  OneResizer'
  BY <1>0, <1>1, <1>2 DEF Return, ThreadsOK
<1>3. CASE Call(t)
  BY <1>0, <1>1, <1>3 DEF Call, ThreadsOK, shared, content
<1>4. CASE Look(t)
  BY <1>0, <1>1, <1>2, <1>4 DEF Look, ThreadsOK, shared, content, local
<1>5. CASE EnterImpl(t) \/ AwaitNew(t) \/ Reload(t) \/ AcquireBucket(t)
  BY <1>0, <1>1, <1>5
  DEF EnterImpl, AwaitNew, Reload, AcquireBucket, ThreadsOK, shared, content, local
<1>6. CASE WriteKey(t) \/ ChainBucket(t)
  BY <1>0, <1>1, <1>6 DEF WriteKey, ChainBucket, ThreadsOK, local
<1>7. CASE Scan(t)
  <2>1. CASE \E l : Return(t, l) /\ UNCHANGED content
    BY <1>2, <1>7, <2>1 DEF Scan, content
  <2>2. CASE Goto(t, "write_key") /\ UNCHANGED <<num_expands, resize, num_buckets, hashtable,
                                                bucket, ht_new>>
    BY <1>0, <1>1, <1>7, <2>2 DEF Scan, ThreadsOK
  <2>3. CASE /\ Goto(t, "chain")
             /\ num_expands' = [num_expands EXCEPT ![hashtable[t]] = @ + 1]
             /\ resize' = [resize EXCEPT ![t] =
                  AtThreshold(num_expands'[hashtable[t]], hashtable[t])]
             /\ UNCHANGED <<num_buckets, hashtable, bucket, ht_new>>
    <3>1. hashtable[t] = ht /\ num_expands'[ht] = num_expands[ht] + 1
          /\ UNCHANGED <<ht, tables, resize_lock>>
      BY <1>0, <1>7, <1>a, <2>3 DEF Scan, WritersFit, Holding, TablesOK
    <3>2. pc[t] = "scan" /\ ~resize[t] /\ pc'[t] = "chain"
          /\ \A u \in Threads : u # t => UNCHANGED <<pc[u], resize[u]>>
      BY <1>0, <1>7, <2>3 DEF Scan, ThreadsOK
    <3>3. CASE ~resize'[t]
      BY <1>0, <1>a, <2>3, <3>1, <3>2, <3>3
    <3>4. CASE resize'[t]
      <4>1. num_expands'[ht] = num_buckets[ht]
        BY <1>0, <2>3, <3>1, <3>4 DEF AtThreshold, ThreadsOK
      <4>2. \A u \in Threads : ~resize[u]
        BY <1>0, <1>a, <3>1, <4>1
      <4> QED
        BY <1>0, <1>a, <2>3, <3>1, <3>2, <4>1, <4>2
    <3> QED BY <3>3, <3>4
  <2> QED BY <1>7, <2>1, <2>2, <2>3 DEF Scan
<1>8. CASE Release(t)
  <2>1. CASE resize[t] /\ Goto(t, "resize_read") /\ UNCHANGED <<local, got>>
    BY <1>0, <1>8, <2>1 DEF Release, ThreadsOK, local, content
  <2> QED BY <1>2, <1>8, <2>1 DEF Release, content
<1>9. CASE ResizeRead(t)
  BY <1>0, <1>9 DEF ResizeRead, ThreadsOK, shared, content
<1>10. CASE ResizeTry(t)
  <2>1. CASE \E l : Return(t, l) /\ UNCHANGED shared
    BY <1>2, <1>10, <2>1 DEF ResizeTry, shared, content
  <2>2. CASE /\ resize_lock = 0 /\ resize_lock' = 1 /\ tables' = tables + 1
             /\ ht_new' = [ht_new EXCEPT ![t] = tables'] /\ Goto(t, "copy")
             /\ UNCHANGED <<ht, num_expands, hashtable, bucket, resize>>
    <3>1. \A u \in Threads : pc[u] \notin Resizing
      BY <1>0, <2>2
    <3>2. tables = ht
      BY <1>0, <3>1
    <3> QED
      BY <1>0, <1>10, <1>b, <2>2, <3>1, <3>2 DEF ResizeTry, ThreadsOK
  <2> QED BY <1>10, <2>1, <2>2 DEF ResizeTry
<1>11. CASE CopyBucket(t)
  <2>1. ht_new[t] = ht + 1 /\ num_expands'[ht] = num_expands[ht]
    BY <1>0, <1>11, <1>a DEF CopyBucket, TablesOK
  <2>2. UNCHANGED <<ht, tables, resize_lock, num_buckets, hashtable, resize, ht_new>>
    BY <1>11 DEF CopyBucket
  <2>3. /\ pc[t] = "copy" /\ pc'[t] \in Filling /\ bucket'[t][1] = bucket[t][1]
        /\ \A u \in Threads : u # t => UNCHANGED <<pc[u], bucket[u]>>
    BY <1>0, <1>11 DEF CopyBucket, ThreadsOK
  <2> QED
    BY <1>0, <2>1, <2>2, <2>3
<1>12. CASE Publish(t)
  <2>1. /\ pc[t] = "publish" /\ pc'[t] = "link" /\ ht' = ht + 1 /\ ht_new[t] = ht + 1
        /\ tables = ht + 1 /\ resize[t] /\ resize_lock = 1
        /\ \A u \in Threads : u # t => UNCHANGED <<pc[u], resize[u]>>
        /\ UNCHANGED <<tables, resize_lock, num_expands, num_buckets, hashtable, bucket, ht_new>>
        /\ resize'[t] = (num_expands[ht_new[t]] >= Threshold(ht_new[t]))
    BY <1>0, <1>12 DEF Publish, ThreadsOK, content
  <2>2. \A u \in Threads : u # t => ~resize[u] /\ pc[u] \notin Resizing
                                    /\ pc[u] \notin {"resize_read", "resize_try"}
    BY <1>0, <2>1
  <2>3. \A u \in Threads :
          /\ pc'[u] \in Resizing => u = t
          /\ pc'[u] \notin {"resize_read", "resize_try"} \cup Filling
          /\ resize'[u] => u = t
    BY <2>1, <2>2
  <2>4. \A u \in Threads :
          resize'[u] => pc'[u] \in Charged /\ num_expands'[ht'] >= num_buckets'[ht']
    BY <2>1, <2>3
  <2>5. ht_new'[t] = ht' /\ tables' = ht' /\ resize_lock' = 1
    BY <2>1
  <2> QED
    BY <2>3, <2>4, <2>5
<1>13. CASE LinkNew(t)
  BY <1>0, <1>13 DEF LinkNew, ThreadsOK, content, local
<1>14. CASE ResizeUnlock(t)
  <2>1. \A u \in Threads : u # t => pc[u] \notin Resizing
    BY <1>0, <1>14 DEF ResizeUnlock
  <2>2. CASE resize[t] /\ Goto(t, "resize_read") /\ UNCHANGED <<local, got>>
    BY <1>0, <1>14, <2>1, <2>2 DEF ResizeUnlock, ThreadsOK, local, content
  <2>3. CASE \E l : Return(t, l)
    BY <1>0, <1>14, <2>1, <2>3 DEF ResizeUnlock, Return, ThreadsOK, content
  <2> QED BY <1>14, <2>2, <2>3 DEF ResizeUnlock
<1> QED
  BY <1>3, <1>4, <1>5, <1>6, <1>7, <1>8, <1>9, <1>10, <1>11, <1>12, <1>13, <1>14 DEF Step

(* A bucket is locked for good when it is copied.  The last one of the     *)
(* table is the last one to be copied.                                     *)
LEMMA BucketsStep ==
  ASSUME IInv, NEW t \in Threads, Call(t) \/ Step(t)
  PROVE  BucketsFit'
<1> USE Constants DEF Goto
<1>0. TypeOK /\ TablesOK /\ ThreadsOK /\ CallsFit /\ WritersFit /\ OneResizer /\ BucketsFit
  BY DEF IInv, TypeOK
<1>a. /\ ht \in Tables /\ ht \in Nat /\ ht \in 1 .. tables /\ tables \in Nat
      /\ 1 .. tables \subseteq Tables /\ Tables \subseteq Nat
  BY <1>0 DEF TablesOK, Tables
<1>b. \A v \in 1 .. tables : Buckets(v)' = Buckets(v)
  BY HashStays
<1>c. \A v \in Tables : num_buckets'[v] = num_buckets[v] => Buckets(v)' = Buckets(v)
  BY DEF Buckets
<1> USE DEF BucketsFit, Filling
<1>1. ASSUME UNCHANGED <<ht, num_buckets, bucket_lock>>,
             \A u \in Threads : u # t => UNCHANGED <<pc[u], bucket[u]>>,
             pc[t] \notin Filling, pc'[t] \notin {"resize_try"} \cup Filling
      PROVE  BucketsFit'
  BY <1>0, <1>1, <1>a, <1>b, <1>c

<1>2. ASSUME NEW b \in Buckets(ht), NEW x, LockBucket(<<ht, b>>, x), x # "RESIZE",
             bucket_lock[ht][b] # "RESIZE", UNCHANGED <<ht, num_buckets>>,
             \A u \in Threads : u # t => UNCHANGED <<pc[u], bucket[u]>>,
             pc[t] \notin Filling, pc'[t] \notin {"resize_try"} \cup Filling
      PROVE  BucketsFit'
  <2>1. \A v \in Tables : \A c \in Buckets(v) :
          bucket_lock'[v][c] = IF v = ht /\ c = b THEN x ELSE bucket_lock[v][c]
    <3>1. TablesOK /\ LockBucket(<<ht, b>>, x) /\ ht \in Tables
      BY <1>0, <1>2, <1>a
    <3> QED BY <3>1, OneBucket
  <2>2. \A c \in Buckets(ht) : bucket_lock'[ht][c] = "RESIZE" <=> bucket_lock[ht][c] = "RESIZE"
    <3>1. \A c \in Buckets(ht) : bucket_lock'[ht][c] = IF c = b THEN x ELSE bucket_lock[ht][c]
      BY <1>a, <2>1
    <3>2. x # "RESIZE" /\ bucket_lock[ht][b] # "RESIZE"
      BY <1>2
    <3> QED BY <3>1, <3>2
  <2>3. \A v \in Tables : Buckets(v)' = Buckets(v)
    BY <1>2, <1>c
  <2>4. \A v \in Tables : \A c \in Buckets(v) : v # ht => bucket_lock'[v][c] = bucket_lock[v][c]
    BY <2>1
  <2>5. \A v \in Tables : \A c \in Buckets(v) :
          /\ v < ht => bucket_lock'[v][c] = "RESIZE"
          /\ v > ht => bucket_lock'[v][c] = "FREE"
    BY <1>0, <1>a, <2>4
  <2> QED
    BY <1>0, <1>2, <1>a, <2>2, <2>3, <2>5
<1>3. ASSUME pc[t] \in Holding
      PROVE  /\ bucket[t] = <<ht, bucket[t][2]>> /\ bucket[t][2] \in Buckets(ht)
             /\ bucket_lock[ht][bucket[t][2]] = "UPDATE"
  BY <1>0, <1>3 DEF WritersFit, ThreadsOK, Holding
<1>4. ASSUME NEW l, Return(t, l), UNCHANGED <<ht, num_buckets, bucket_lock>>, pc[t] \notin Filling
      PROVE  BucketsFit'
  BY <1>0, <1>1, <1>4 DEF Return, ThreadsOK
<1>5. CASE Call(t)
  BY <1>0, <1>1, <1>5 DEF Call, ThreadsOK, shared, content
<1>6. CASE Look(t)
  BY <1>0, <1>1, <1>4, <1>6 DEF Look, ThreadsOK, shared, content, local
<1>7. CASE EnterImpl(t) \/ AwaitNew(t) \/ Reload(t)
  BY <1>0, <1>1, <1>7
  DEF EnterImpl, AwaitNew, Reload, ThreadsOK, shared, content, local
<1>17. CASE ResizeRead(t)
  BY <1>0, <1>17, <1>a, <1>b, <1>c DEF ResizeRead, ThreadsOK, shared, content
<1>8. CASE WriteKey(t) \/ ChainBucket(t) \/ LinkNew(t)
  BY <1>0, <1>1, <1>8 DEF WriteKey, ChainBucket, LinkNew, ThreadsOK, local, content
<1>9. CASE AcquireBucket(t)
  <2>1. CASE UNCHANGED bucket_lock /\ Goto(t, "wait")
    BY <1>0, <1>1, <1>9, <2>1 DEF AcquireBucket, ThreadsOK, local, content
  <2>2. CASE /\ bucket_lock[bucket[t][1]][bucket[t][2]] = "FREE"
             /\ LockBucket(bucket[t], "UPDATE") /\ Goto(t, "scan")
    <3>1. bucket[t][1] = ht /\ bucket[t] = <<ht, bucket[t][2]>> /\ bucket[t][2] \in Buckets(ht)
      <4>1. /\ bucket[t] \in Tables \X Nat /\ bucket[t][2] \in Buckets(bucket[t][1])
            /\ bucket[t][1] \in 1 .. hashtable[t] /\ hashtable[t] \in 1 .. ht
        BY <1>0, <1>9 DEF AcquireBucket, ThreadsOK, CallsFit
      <4> QED BY <1>0, <1>a, <2>2, <4>1
    <3>2. LockBucket(<<ht, bucket[t][2]>>, "UPDATE") /\ bucket_lock[ht][bucket[t][2]] = "FREE"
      BY <2>2, <3>1 DEF LockBucket
    <3> QED
      BY <1>0, <1>2, <1>9, <2>2, <3>1, <3>2 DEF AcquireBucket, ThreadsOK, local, content
  <2> QED BY <1>9, <2>1, <2>2 DEF AcquireBucket
<1>10. ASSUME pc[t] \in Holding, ReleaseBucket(t), UNCHANGED <<ht, num_buckets>>,
             \A u \in Threads : u # t => UNCHANGED <<pc[u], bucket[u]>>,
             pc'[t] \notin {"resize_try"} \cup Filling
      PROVE  BucketsFit'
  <2>1. LockBucket(<<ht, bucket[t][2]>>, "FREE")
    BY <1>3, <1>10 DEF ReleaseBucket, LockBucket
  <2> QED
    BY <1>2, <1>3, <1>10, <2>1 DEF Holding
<1>11. CASE Scan(t)
  <2>1. CASE /\ Goto(t, "write_key") \/ Goto(t, "chain")
             /\ UNCHANGED <<ht, num_buckets, bucket_lock, bucket>>
    BY <1>0, <1>1, <1>11, <2>1 DEF Scan, ThreadsOK
  <2>2. CASE \E l : Return(t, l) /\ ReleaseBucket(t) /\ UNCHANGED content
    BY <1>0, <1>10, <1>11, <2>2 DEF Scan, ThreadsOK, Return, Holding, content
  <2> QED
    BY <1>11, <2>1, <2>2 DEF Scan
<1>12. CASE Release(t)
  BY <1>0, <1>10, <1>12 DEF Release, ThreadsOK, Return, Holding, content, local
<1>13. CASE ResizeTry(t)
  <2>1. CASE \E l : Return(t, l) /\ UNCHANGED shared
    BY <1>4, <1>13, <2>1 DEF ResizeTry, shared, content
  <2>2. CASE /\ resize_lock = 0 /\ tables < MaxTables /\ tables' = tables + 1 /\ Goto(t, "copy")
             /\ \E n : /\ num_buckets' = [num_buckets EXCEPT ![tables'] = n]
                       /\ bucket_lock' = [bucket_lock EXCEPT ![tables'] = FreeTable(n)]
             /\ UNCHANGED <<ht, bucket>>
    <3>1. (\A u \in Threads : pc[u] \notin Filling) /\ tables = ht
      BY <1>0, <2>2 DEF OneResizer, Resizing
    <3>2. tables + 1 \in Tables /\ ht # tables + 1 /\ pc'[t] = "copy" /\ bucket'[t] = bucket[t]
      BY <1>0, <1>a, <2>2 DEF Tables, ThreadsOK
    <3>3. \A v \in Tables : v # tables + 1 =>
            Buckets(v)' = Buckets(v) /\ bucket_lock'[v] = bucket_lock[v]
      BY <1>0, <1>c, <2>2 DEF TablesOK
    <3>4. \A b \in 0 .. num_buckets'[tables + 1] - 1 : bucket_lock'[tables + 1][b] = "FREE"
      <4>1. PICK n : /\ num_buckets' = [num_buckets EXCEPT ![tables'] = n]
                     /\ bucket_lock' = [bucket_lock EXCEPT ![tables'] = FreeTable(n)]
        BY <2>2
      <4>2. num_buckets'[tables + 1] = n /\ bucket_lock'[tables + 1] = FreeTable(n)
        BY <1>0, <2>2, <3>2, <4>1 DEF TablesOK
      <4>3. bucket_lock'[tables + 1] = [b \in 0 .. num_buckets'[tables + 1] - 1 |-> "FREE"]
        BY <4>2 DEF FreeTable
      <4> QED BY <4>3
    <3>5. ASSUME NEW v \in Tables, NEW b \in Buckets(v)'
          PROVE  (v < ht => bucket_lock'[v][b] = "RESIZE") /\ (v > ht => bucket_lock'[v][b] = "FREE")
      <4>1. CASE v = tables + 1
        BY <1>a, <3>1, <3>4, <4>1 DEF Buckets
      <4>2. CASE v # tables + 1
        BY <1>0, <3>3, <4>2
      <4> QED BY <4>1, <4>2
    <3>6. ASSUME NEW u \in Threads, pc'[u] \in {"resize_try"} \cup Filling
          PROVE  /\ pc[u] = "resize_try" /\ bucket'[u][2] = 0 /\ pc'[u] # "publish"
      <4>1. UNCHANGED bucket /\ pc[t] = "resize_try" /\ (u # t => pc'[u] = pc[u])
        BY <1>0, <1>13, <2>2 DEF ResizeTry, ThreadsOK
      <4>2. pc[u] = "resize_try" /\ pc'[u] # "publish"
        BY <3>1, <3>2, <3>6, <4>1
      <4> QED BY <1>0, <4>1, <4>2
    <3>7. Buckets(ht)' = Buckets(ht) /\ \A b \in Buckets(ht) : bucket_lock'[ht][b] # "RESIZE" /\ ~(b < 0)
      <4>1. Buckets(ht)' = Buckets(ht) /\ bucket_lock'[ht] = bucket_lock[ht]
        <5>1. num_buckets'[ht] = num_buckets[ht]
          BY <1>a, Grows
        <5> QED BY <1>a, <2>2, <3>2, <3>3, <5>1 DEF Buckets
      <4>2. \A b \in Buckets(ht) : ~(b < 0)
        BY DEF Buckets
      <4> QED BY <1>0, <3>1, <4>1, <4>2
    <3> QED
      BY <1>0, <2>2, <3>2, <3>5, <3>6, <3>7
  <2> QED BY <1>13, <2>1, <2>2 DEF ResizeTry
<1>14. CASE CopyBucket(t)
  <2> DEFINE b == bucket[t][2]
  <2>1. bucket[t][1] = ht /\ bucket[t] = <<ht, b>> /\ b \in Buckets(ht) /\ b \in Nat
    BY <1>0, <1>14 DEF CopyBucket, OneResizer, ThreadsOK
  <2>2. bucket_lock[ht][b] # "RESIZE" /\ pc[t] = "copy"
    BY <1>0, <1>14, <2>1 DEF CopyBucket
  <2>3. LockBucket(<<ht, b>>, "RESIZE")
    BY <1>14, <2>1, <2>2 DEF CopyBucket, Copied, LockBucket
  <2>4. \A v \in Tables : \A c \in Buckets(v) :
          bucket_lock'[v][c] = IF v = ht /\ c = b THEN "RESIZE" ELSE bucket_lock[v][c]
    <3> HIDE DEF b
    <3> QED BY <1>0, <1>a, <2>1, <2>3, OneBucket
  <2>5. UNCHANGED <<ht, num_buckets>> /\ \A v \in Tables : Buckets(v)' = Buckets(v)
    BY <1>14, <1>c DEF CopyBucket
  <2>6. \A v \in Tables : \A c \in Buckets(v) :
          /\ v < ht => bucket_lock'[v][c] = "RESIZE"
          /\ v > ht => bucket_lock'[v][c] = "FREE"
    <3> HIDE DEF b
    <3>1. \A v \in Tables : \A c \in Buckets(v) : v # ht => bucket_lock'[v][c] = bucket_lock[v][c]
      BY <2>4
    <3> QED BY <1>0, <1>a, <3>1
  <2>7. \A c \in Buckets(ht) : c \in Nat /\ (bucket_lock'[ht][c] = "RESIZE" <=> c < b + 1)
    <3>1. \A c \in Buckets(ht) : c \in Nat /\ (bucket_lock[ht][c] = "RESIZE" <=> c < b)
      BY <1>0, <1>a, <2>2 DEF Buckets, TablesOK
    <3>2. \A c \in Buckets(ht) : bucket_lock'[ht][c] = IF c = b THEN "RESIZE" ELSE bucket_lock[ht][c]
      BY <1>a, <2>4
    <3> HIDE DEF b
    <3> QED BY <2>1, <3>1, <3>2
  <2>8. \A u \in Threads : u # t => pc'[u] = pc[u] /\ pc[u] \notin {"resize_try"} \cup Filling
    BY <1>0, <1>14, <2>2 DEF CopyBucket, ThreadsOK, OneResizer, Resizing
  <2>9. CASE b + 1 < num_buckets[ht] /\ bucket' = [bucket EXCEPT ![t] = <<ht, b + 1>>] /\ UNCHANGED pc
    <3>1. bucket'[t][2] = b + 1 /\ pc'[t] = "copy"
      BY <1>0, <2>2, <2>9 DEF ThreadsOK
    <3>2. \A u \in Threads : pc'[u] \notin {"resize_try", "publish"} /\ (pc'[u] = "copy" => u = t)
      BY <2>8, <3>1
    <3> HIDE DEF b
    <3>3. \A u \in Threads : pc'[u] = "copy" =>
            \A c \in Buckets(ht) : bucket_lock'[ht][c] = "RESIZE" <=> c < bucket'[u][2]
      BY <2>7, <3>1, <3>2
    <3>4. ~(\A u \in Threads : pc'[u] \notin Filling)
      BY <3>1
    <3> QED BY <1>a, <2>5, <2>6, <3>2, <3>3, <3>4
  <2>10. CASE ~(b + 1 < num_buckets[ht]) /\ pc' = [pc EXCEPT ![t] = "publish"]
    <3>1. pc'[t] = "publish"
      BY <1>0, <2>10 DEF ThreadsOK
    <3>2. \A c \in Buckets(ht) : c < b + 1
      BY <1>0, <1>a, <2>1, <2>10 DEF Buckets, TablesOK
    <3>3. \A u \in Threads : pc'[u] \notin {"resize_try", "copy"}
      BY <2>8, <3>1
    <3> HIDE DEF b
    <3>4. \A c \in Buckets(ht) : bucket_lock'[ht][c] = "RESIZE"
      BY <2>7, <3>2
    <3>5. ~(\A u \in Threads : pc'[u] \notin Filling)
      BY <3>1
    <3> QED BY <1>a, <2>5, <2>6, <3>3, <3>4, <3>5
  <2> QED BY <1>14, <2>1, <2>9, <2>10 DEF CopyBucket, MoreBuckets
<1>15. CASE Publish(t)
  <2>1. /\ ht' = ht + 1 /\ ht + 1 = tables /\ ht + 1 \in Tables
        /\ UNCHANGED <<bucket_lock, num_buckets, bucket>> /\ pc[t] = "publish" /\ pc'[t] = "link"
        /\ \A u \in Threads : u # t => pc'[u] = pc[u]
    BY <1>0, <1>15 DEF Publish, OneResizer, ThreadsOK, TablesOK, content
  <2>2. \A v \in Tables : Buckets(v)' = Buckets(v)
    BY <1>c, <2>1
  <2>3. \A b \in Buckets(ht + 1) : bucket_lock[ht + 1][b] = "FREE"
    BY <1>0, <1>a, <2>1
  <2>4. \A u \in Threads : u # t => pc[u] \notin {"resize_try"} \cup Filling
    BY <1>0, <2>1 DEF OneResizer
  <2>5. \A v \in Tables : \A c \in Buckets(v) :
          /\ v < ht + 1 => bucket_lock[v][c] = "RESIZE"
          /\ v > ht + 1 => bucket_lock[v][c] = "FREE"
    BY <1>0, <1>a, <2>1
  <2> QED
    BY <2>1, <2>2, <2>3, <2>4, <2>5
<1>16. CASE ResizeUnlock(t)
  BY <1>0, <1>1, <1>4, <1>16 DEF ResizeUnlock, ThreadsOK, content, local
<1> QED
  BY <1>5, <1>6, <1>7, <1>8, <1>9, <1>11, <1>12, <1>13, <1>14, <1>15, <1>16, <1>17 DEF Step

----------------------------------------------------------------------------
(* What the tables hold.                                                   *)

(* A used slot holds its address and its lock.                             *)
LEMMA SlotIs ==
  ASSUME TypeOK, NEW v \in Tables, NEW b \in Buckets(v), NEW s \in slots[v][b]
  PROVE  s = Slot(s.key, s.lock) /\ s.lock \in 1 .. locks /\ s.key \in Keys \cup {Null}
<1>1. s \in [key : Keys \cup {Null}, lock : 1 .. locks]
  BY DEF TypeOK, TablesOK
<1> QED
  BY <1>1 DEF Slot

LEMMA KeyIs ==
  ASSUME TypeOK, SlotsFit, NEW v \in Tables, NEW b \in Buckets(v), NEW s \in slots[v][b],
         s.key # Null
  PROVE  s.key \in Keys /\ s.lock \in 1 .. locks /\ Has(v, s.key, s.lock) /\ b = Hash(v, s.key)
  BY SlotIs DEF SlotsFit, Has

(* An address has one lock.                                                *)
LEMMA HasOne ==
  ASSUME TypeOK, SlotsFit, NEW v \in 1 .. tables, NEW k \in Keys, NEW l, NEW m,
         Has(v, k, l), Has(v, k, m)
  PROVE  l = m
<1>1. v \in Tables /\ Hash(v, k) \in Buckets(v)
  <2>1. v \in Tables
    BY Constants DEF TypeOK, TablesOK, Tables
  <2> QED BY <2>1, HashIn
<1>2. k # Null
  BY Constants
<1> QED
  BY <1>1, <1>2 DEF SlotsFit, Has, Slot

(* A table that is not written holds what it held.                         *)
LEMMA SameHas ==
  ASSUME NEW v, slots'[v] = slots[v], num_buckets'[v] = num_buckets[v], NEW k, NEW l
  PROVE  Has(v, k, l)' <=> Has(v, k, l)
  BY DEF Has, Hash, Slot

(* A new lock is in the table without its address at first.                *)
LEMMA ScanHas ==
  ASSUME IInv, NEW t \in Threads, Scan(t)
  PROVE  \A v \in 1 .. tables, k \in Keys, l \in Nat : Has(v, k, l)' <=> Has(v, k, l)
<1> SUFFICES ASSUME NEW v \in 1 .. tables, NEW k \in Keys, NEW l \in Nat
             PROVE  Has(v, k, l)' <=> Has(v, k, l)
  OBVIOUS
<1>1. num_buckets'[v] = num_buckets[v]
  BY Grows DEF Step
<1>2. CASE slots' = slots
  BY <1>1, <1>2, SameHas
<1>3. CASE \E w, b, m : slots' = [slots EXCEPT ![w][b] = @ \cup {Slot(Null, m)}]
  <2>1. k # Null
    BY Constants
  <2>2. PICK w, b, m : slots' = [slots EXCEPT ![w][b] = @ \cup {Slot(Null, m)}]
    BY <1>3
  <2>3. Slot(k, l) # Slot(Null, m)
    BY <2>1 DEF Slot
  <2>4. v \in Tables /\ Hash(v, k) \in Buckets(v) /\ DOMAIN slots = Tables
        /\ DOMAIN slots[v] = Buckets(v)
    <3>1. v \in Tables /\ TypeOK
      BY Constants DEF IInv, TypeOK, TablesOK, Tables
    <3> QED BY <3>1, HashIn DEF TypeOK, TablesOK
  <2>5. Slot(k, l) \in slots'[v][Hash(v, k)] <=> Slot(k, l) \in slots[v][Hash(v, k)]
    BY <2>2, <2>3, <2>4
  <2> QED
    BY <1>1, <2>5 DEF Has, Hash, Slot
<1>4. \/ slots' = slots
      \/ slots' = [slots EXCEPT ![bucket[t][1]][bucket[t][2]] = @ \cup {Slot(Null, locks')}]
  BY DEF Scan, content
<1> QED
  BY <1>2, <1>3, <1>4

(* A writer puts its address in, and nothing else.                         *)
LEMMA WriteHas ==
  ASSUME IInv, NEW t \in Threads, WriteKey(t) \/ ChainBucket(t)
  PROVE  \A v \in 1 .. tables, k \in Keys, l \in Nat :
           Has(v, k, l)' <=> Has(v, k, l) \/ (v = ht /\ k = key[t] /\ l = new_lock[t])
<1> SUFFICES ASSUME NEW v \in 1 .. tables, NEW k \in Keys, NEW l \in Nat
             PROVE  Has(v, k, l)' <=> Has(v, k, l) \/ (v = ht /\ k = key[t] /\ l = new_lock[t])
  OBVIOUS
<1>1. num_buckets'[v] = num_buckets[v]
  BY Grows DEF Step
<1>2. v \in Tables /\ Hash(v, k) \in Buckets(v) /\ DOMAIN slots = Tables
      /\ DOMAIN slots[v] = Buckets(v)
  <2>1. v \in Tables /\ TypeOK
    BY Constants DEF IInv, TypeOK, TablesOK, Tables
  <2> QED BY <2>1, HashIn DEF TypeOK, TablesOK
<1>3. bucket[t][1] = ht /\ bucket[t][2] = Hash(ht, key[t]) /\ k # Null
  BY Constants DEF IInv, WriteKey, ChainBucket, WritersFit, CallsFit, Holding
<1> DEFINE b == Hash(ht, key[t])
           s == Slot(key[t], new_lock[t])
<1>4. /\ Slot(k, l) # Slot(Null, new_lock[t])
      /\ Slot(k, l) = s <=> k = key[t] /\ l = new_lock[t]
  BY <1>3 DEF Slot
<1>5. \/ slots' = [slots EXCEPT ![ht][b] = (@ \ {Slot(Null, new_lock[t])}) \cup {s}]
      \/ slots' = [slots EXCEPT ![ht][b] = @ \cup {s}]
  BY <1>3 DEF WriteKey, ChainBucket
<1>6. Slot(k, l) \in slots'[v][Hash(v, k)] <=>
        Slot(k, l) \in slots[v][Hash(v, k)] \/ (v = ht /\ Hash(v, k) = b /\ Slot(k, l) = s)
  <2> HIDE DEF b, s
  <2> QED BY <1>2, <1>4, <1>5
<1>7. Has(v, k, l)' <=> Slot(k, l) \in slots'[v][Hash(v, k)]
  BY <1>1 DEF Has, Hash, Slot
<1> QED
  BY <1>4, <1>6, <1>7 DEF Has

(* A new table is empty.                                                   *)
LEMMA CreateHas ==
  ASSUME IInv, NEW t \in Threads, ResizeTry(t), NEW v \in 1 .. tables', NEW k \in Keys,
         NEW l \in Nat
  PROVE  Has(v, k, l)' <=> v \in 1 .. tables /\ Has(v, k, l)
<1>0. TablesOK /\ k \in Nat
  BY Constants DEF IInv, TypeOK
<1>1. CASE UNCHANGED shared
  BY <1>1, SameHas DEF shared, content
<1>2. CASE /\ tables < MaxTables /\ tables' = tables + 1
           /\ \E n : /\ num_buckets' = [num_buckets EXCEPT ![tables'] = n]
                     /\ slots' = [slots EXCEPT ![tables'] = EmptyTable(n)]
  <2>1. CASE v = tables + 1
    <3>1. PICK n : /\ num_buckets' = [num_buckets EXCEPT ![tables'] = n]
                   /\ slots' = [slots EXCEPT ![tables'] = EmptyTable(n)]
      BY <1>2
    <3>2. num_buckets'[v] = n /\ slots'[v] = EmptyTable(n) /\ v \in Tables
      BY <1>0, <1>2, <2>1, <3>1, Constants DEF TablesOK, Tables
    <3>3. n \in Nat /\ n > 0
      <4>1. TablesOK'
        BY TablesStep DEF Step
      <4> QED BY <3>2, <4>1 DEF TablesOK
    <3>4. k % n \in 0 .. n - 1
      BY <1>0, <3>3
    <3>5. slots'[v][k % n] = {}
      BY <3>2, <3>4 DEF EmptyTable
    <3> QED
      BY <1>0, <2>1, <3>2, <3>5 DEF Has, Hash, TablesOK, Tables
  <2>2. CASE v # tables + 1
    <3>1. v \in 1 .. tables /\ v \in Tables
      BY <1>0, <1>2, <2>2, Constants DEF TablesOK, Tables
    <3>2. slots'[v] = slots[v] /\ num_buckets'[v] = num_buckets[v]
      BY <1>0, <1>2, <2>2, <3>1 DEF TablesOK
    <3> QED BY <3>1, <3>2, SameHas
  <2> QED BY <2>1, <2>2
<1> QED
  BY <1>1, <1>2 DEF ResizeTry

(* Copying a bucket adds its addresses to the new table.                   *)
LEMMA CopyHas ==
  ASSUME IInv, NEW t \in Threads, CopyBucket(t), NEW k \in Keys, NEW l \in 1 .. locks
  PROVE  /\ \A v \in 1 .. ht : Has(v, k, l)' <=> Has(v, k, l)
         /\ \A v \in Tables : v = ht + 1 =>
              (Has(v, k, l)' <=>
                 Has(v, k, l) \/ (Has(ht, k, l) /\ Hash(ht, k) = bucket[t][2]))
<1> DEFINE b == bucket[t][2]
           w == ht + 1
           F == [c \in Buckets(w) |->
                   slots[w][c] \cup {s \in slots[ht][b] : s.key # Null /\ Hash(w, s.key) = c}]
<1>0. TypeOK /\ TablesOK /\ SlotsFit /\ k # Null
  BY Constants DEF IInv, TypeOK
<1>1. /\ ht \in Tables /\ w \in Tables /\ w \in 1 .. tables /\ b \in Buckets(ht) /\ w # ht
      /\ bucket[t] = <<ht, b>> /\ ht_new[t] = w /\ ht \in 1 .. tables
      /\ \A v \in 1 .. ht : v \in Tables /\ v # w
  <2>1. /\ ht_new[t] = w /\ bucket[t][1] = ht /\ tables = w
        /\ bucket[t] \in Tables \X Nat /\ b \in Buckets(bucket[t][1])
    BY DEF IInv, CopyBucket, OneResizer, Filling, TypeOK, ThreadsOK
  <2> QED BY <1>0, <2>1, Constants DEF TablesOK, Tables
<1>2. bucket_lock[ht][b] # "RESIZE"
  <2>1. b \in Int /\ pc[t] = "copy"
    BY <1>0, <1>1 DEF CopyBucket, Buckets, TablesOK
  <2>2. bucket_lock[ht][b] = "RESIZE" <=> b < b
    BY <1>1, <2>1 DEF IInv, BucketsFit
  <2> QED BY <2>1, <2>2
<1>3. slots' = [slots EXCEPT ![w] = F] /\ num_buckets' = num_buckets
  <2>1. bucket[t][1] = ht /\ bucket[t][2] = b
    BY <1>1
  <2>2. bucket_lock[bucket[t][1]][bucket[t][2]] # "RESIZE"
    BY <1>2, <2>1
  <2> HIDE DEF w
  <2> QED BY <1>1, <2>1, <2>2 DEF CopyBucket
<1>4. \A v \in 1 .. ht : Has(v, k, l)' <=> Has(v, k, l)
  <2> HIDE DEF F, w
  <2>1. \A v \in 1 .. ht : slots'[v] = slots[v] /\ num_buckets'[v] = num_buckets[v]
    BY <1>0, <1>1, <1>3 DEF TablesOK
  <2> QED BY <2>1, SameHas
<1>5. Hash(w, k) \in Buckets(w) /\ Hash(ht, k) \in Buckets(ht)
  <2> HIDE DEF w
  <2> QED BY <1>0, <1>1, HashIn
<1>6. ASSUME NEW v \in Tables, v = w
      PROVE  Has(v, k, l)' <=> Has(v, k, l) \/ (Has(ht, k, l) /\ Hash(ht, k) = b)
  <2>1. Has(v, k, l)' <=> Slot(k, l) \in F[Hash(w, k)]
    <3>1. slots'[v] = F
      BY <1>0, <1>1, <1>3, <1>6 DEF TablesOK
    <3> QED BY <1>3, <1>6, <3>1 DEF Has, Hash, Slot
  <2>2. Slot(k, l) \in F[Hash(w, k)] <=>
          Slot(k, l) \in slots[w][Hash(w, k)] \/ Slot(k, l) \in slots[ht][b]
    BY <1>0, <1>5 DEF Slot
  <2>3. Slot(k, l) \in slots[ht][b] <=> Has(ht, k, l) /\ Hash(ht, k) = b
    <3>1. Slot(k, l) \in slots[ht][b] => b = Hash(ht, Slot(k, l).key)
      BY <1>0, <1>1 DEF SlotsFit, Slot
    <3>2. Slot(k, l).key = k
      BY DEF Slot
    <3> QED BY <3>1, <3>2 DEF Has
  <2> QED
    BY <1>6, <2>1, <2>2, <2>3 DEF Has
<1> QED
  BY <1>4, <1>6

LEMMA HasLock ==
  ASSUME TypeOK, NEW v \in 1 .. tables, NEW k \in Keys, NEW l, Has(v, k, l)
  PROVE  l \in 1 .. locks
<1>1. v \in Tables /\ Hash(v, k) \in Buckets(v)
  <2>1. v \in Tables
    BY Constants DEF TypeOK, TablesOK, Tables
  <2> QED BY <2>1, HashIn
<1> QED
  BY <1>1 DEF Has, Slot, TypeOK, TablesOK

(* What is right of one bucket.                                            *)
BucketRight(v, b, S) ==
  /\ IsFiniteSet(S)
  /\ \A s \in S : s.key # Null => b = Hash(v, s.key)
  /\ \A r, s \in S : r.key = s.key /\ s.key # Null => r = s

(* A writer adds an address that the bucket does not have, and so does the *)
(* copy: what it copies was not locked for good yet, what it has copied    *)
(* is.                                                                     *)
LEMMA SlotsStep ==
  ASSUME IInv, NEW t \in Threads, Call(t) \/ Step(t)
  PROVE  SlotsFit'
<1> USE Constants
<1>0. /\ TypeOK /\ TablesOK /\ ThreadsOK /\ CallsFit /\ WritersFit /\ OneResizer /\ BucketsFit
      /\ SlotsFit /\ KeysMove /\ AnswersFit
  BY DEF IInv, TypeOK
<1>a. ht \in Tables /\ ht \in Nat /\ ht \in 1 .. tables
  BY <1>0 DEF TablesOK, Tables
<1>c. \A v \in Tables : \A b \in Buckets(v) : BucketRight(v, b, slots[v][b])
  BY <1>0 DEF BucketRight, SlotsFit
<1>d. ASSUME UNCHANGED num_buckets,
             \A v \in Tables : \A b \in Buckets(v) : BucketRight(v, b, slots'[v][b])
      PROVE  SlotsFit'
  BY <1>d DEF SlotsFit, BucketRight, Buckets, Hash
<1>1. CASE UNCHANGED <<slots, num_buckets>>
  BY <1>0, <1>1 DEF SlotsFit, Buckets, Hash
<1>2. CASE Scan(t)
  <2> DEFINE v == bucket[t][1]
             b == bucket[t][2]
             new == Slot(Null, locks')
  <2>1. CASE UNCHANGED slots
    BY <1>1, <1>2, <2>1 DEF Scan, content
  <2>2. CASE slots' = [slots EXCEPT ![v][b] = @ \cup {new}] /\ UNCHANGED num_buckets
    <3>1. new.key = Null
      BY DEF Slot
    <3>2. ASSUME NEW w \in Tables, NEW c \in Buckets(w)
          PROVE  BucketRight(w, c, slots[w][c] \cup {new})
      <4>1. IsFiniteSet(slots[w][c] \cup {new})
        BY <1>c, FS_AddElement DEF BucketRight
      <4> HIDE DEF new
      <4> QED BY <1>c, <3>1, <4>1 DEF BucketRight
    <3>3. ASSUME NEW w \in Tables, NEW c \in Buckets(w)
          PROVE  slots'[w][c] = slots[w][c] \/ slots'[w][c] = slots[w][c] \cup {new}
      <4> HIDE DEF v, b, new
      <4> QED BY <1>0, <2>2 DEF TablesOK
    <3> HIDE DEF v, b, new
    <3> QED
      BY <1>c, <1>d, <2>2, <3>2, <3>3
  <2> QED
    BY <1>2, <2>1, <2>2 DEF Scan, content
<1>3. CASE WriteKey(t) \/ ChainBucket(t)
  <2> DEFINE b == bucket[t][2]
             new == Slot(key[t], new_lock[t])
             old == Slot(Null, new_lock[t])
  <2>1. /\ bucket[t] = <<ht, b>> /\ b \in Buckets(ht) /\ b = Hash(ht, key[t]) /\ key[t] \in Keys
    BY <1>0, <1>3 DEF WriteKey, ChainBucket, WritersFit, Holding, CallsFit, ThreadsOK
  <2>2. new.key = key[t] /\ key[t] # Null
    BY <2>1 DEF Slot
  <2>3. \A s \in slots[ht][b] : s.key # key[t]
    <3> SUFFICES ASSUME NEW s \in slots[ht][b], s.key = key[t] PROVE FALSE
      OBVIOUS
    <3>1. Has(ht, key[t], s.lock) /\ s.lock \in 1 .. locks
      BY <1>0, <1>a, <2>1, <2>2, KeyIs
    <3> QED
      BY <1>0, <1>3, <3>1 DEF WriteKey, ChainBucket, AnswersFit
  <2>4. ASSUME NEW S, S \subseteq slots[ht][b] PROVE BucketRight(ht, b, S \cup {new})
    <3>1. BucketRight(ht, b, slots[ht][b])
      BY <1>a, <1>c, <2>1
    <3>2. IsFiniteSet(S \cup {new})
      <4>1. IsFiniteSet(S)
        BY <2>4, <3>1, FS_Subset DEF BucketRight
      <4> QED BY <4>1, FS_AddElement
    <3>3. \A s \in S : s \in slots[ht][b] /\ s.key # key[t]
      BY <2>3, <2>4
    <3>4. b = Hash(ht, new.key)
      BY <2>1, <2>2
    <3> HIDE DEF b, new
    <3>5. \A s \in S \cup {new} : s.key # Null => b = Hash(ht, s.key)
      BY <3>1, <3>3, <3>4 DEF BucketRight
    <3>6. \A r, s \in S \cup {new} : r.key = s.key /\ s.key # Null => r = s
      BY <2>2, <3>1, <3>3 DEF BucketRight
    <3> QED
      BY <3>2, <3>5, <3>6 DEF BucketRight
  <2>5. UNCHANGED num_buckets
    BY <1>3 DEF WriteKey, ChainBucket
  <2>6. \/ slots' = [slots EXCEPT ![ht][b] = (@ \ {old}) \cup {new}]
        \/ slots' = [slots EXCEPT ![ht][b] = @ \cup {new}]
    BY <1>3, <2>1 DEF WriteKey, ChainBucket
  <2>7. ASSUME NEW w \in Tables, NEW c \in Buckets(w)
        PROVE  \/ slots'[w][c] = slots[w][c]
               \/ w = ht /\ c = b /\ \E S : S \subseteq slots[ht][b] /\ slots'[w][c] = S \cup {new}
    <3> HIDE DEF b, new, old
    <3>1. \/ slots'[w][c] = slots[w][c]
          \/ w = ht /\ c = b /\ slots'[w][c] = (slots[ht][b] \ {old}) \cup {new}
          \/ w = ht /\ c = b /\ slots'[w][c] = slots[ht][b] \cup {new}
      BY <1>0, <1>a, <2>6 DEF TablesOK
    <3> QED BY <3>1
  <2> HIDE DEF b, new, old
  <2> QED
    BY <1>c, <1>d, <2>4, <2>5, <2>7
<1>4. CASE ResizeTry(t)
  <2>1. CASE UNCHANGED shared
    BY <1>1, <2>1 DEF shared, content
  <2>2. CASE /\ tables < MaxTables /\ tables' = tables + 1
             /\ \E n : /\ num_buckets' = [num_buckets EXCEPT ![tables'] = n]
                       /\ slots' = [slots EXCEPT ![tables'] = EmptyTable(n)]
    <3>1. PICK n : /\ num_buckets' = [num_buckets EXCEPT ![tables'] = n]
                   /\ slots' = [slots EXCEPT ![tables'] = EmptyTable(n)]
      BY <2>2
    <3>2. tables + 1 \in Tables /\ num_buckets'[tables + 1] = n /\ slots'[tables + 1] = EmptyTable(n)
      BY <1>0, <2>2, <3>1 DEF TablesOK, Tables
    <3>3. \A b \in 0 .. n - 1 : slots'[tables + 1][b] = {}
      BY <3>2 DEF EmptyTable
    <3>4. \A v \in Tables : v # tables + 1 => slots'[v] = slots[v] /\ num_buckets'[v] = num_buckets[v]
      BY <1>0, <2>2, <3>1 DEF TablesOK
    <3>5. ASSUME NEW v \in Tables, NEW b \in Buckets(v)'
          PROVE  /\ IsFiniteSet(slots'[v][b])
                 /\ \A s \in slots'[v][b] : s.key # Null => b = Hash(v, s.key)'
                 /\ \A r, s \in slots'[v][b] : r.key = s.key /\ s.key # Null => r = s
      <4>1. CASE v = tables + 1
        <5>1. slots'[v][b] = {}
          BY <3>2, <3>3, <4>1 DEF Buckets
        <5> QED BY <5>1, FS_EmptySet
      <4>2. CASE v # tables + 1
        <5>1. slots'[v] = slots[v] /\ num_buckets'[v] = num_buckets[v] /\ b \in Buckets(v)
          BY <3>4, <4>2 DEF Buckets
        <5> QED BY <1>c, <5>1 DEF BucketRight, Hash
      <4> QED BY <4>1, <4>2
    <3> QED BY <3>5 DEF SlotsFit
  <2> QED
    BY <1>4, <2>1, <2>2 DEF ResizeTry
<1>5. CASE CopyBucket(t)
  <2> DEFINE b == bucket[t][2]
             w == ht + 1
             G(c) == {s \in slots[ht][b] : s.key # Null /\ Hash(w, s.key) = c}
             F == [c \in Buckets(w) |-> slots[w][c] \cup G(c)]
  <2>1. CASE UNCHANGED slots
    BY <1>1, <1>5, <2>1 DEF CopyBucket
  <2>2. CASE ~UNCHANGED slots
    <3>1. /\ w \in Tables /\ w # ht /\ w \in 1 .. tables /\ tables = w
          /\ b \in Buckets(ht) /\ bucket[t] = <<ht, b>> /\ ht_new[t] = w
      <4>1. /\ ht_new[t] = w /\ bucket[t][1] = ht /\ tables = w
            /\ bucket[t] \in Tables \X Nat /\ b \in Buckets(bucket[t][1])
        BY <1>0, <1>5 DEF CopyBucket, OneResizer, Filling, ThreadsOK
      <4> QED BY <1>0, <1>a, <4>1 DEF TablesOK, Tables
    <3>2. bucket_lock[ht][b] = "FREE" /\ slots' = [slots EXCEPT ![w] = F] /\ UNCHANGED num_buckets
      <4>1. bucket[t][1] = ht /\ bucket[t][2] = b
        BY <3>1
      <4> HIDE DEF w
      <4> QED BY <1>5, <2>2, <3>1, <4>1 DEF CopyBucket
    <3>3. ASSUME NEW c \in Buckets(w) PROVE BucketRight(w, c, slots[w][c] \cup G(c))
      <4>1. BucketRight(w, c, slots[w][c]) /\ BucketRight(ht, b, slots[ht][b])
        BY <1>a, <1>c, <3>1
      <4>2. IsFiniteSet(slots[w][c] \cup G(c))
        <5>1. IsFiniteSet(G(c))
          BY <4>1, FS_Subset DEF BucketRight
        <5> QED BY <4>1, <5>1, FS_Union DEF BucketRight
      <4>3. ASSUME NEW r \in slots[w][c], NEW s \in G(c), r.key = s.key PROVE FALSE
        <5>1. s.key # Null /\ s \in slots[ht][b]
          OBVIOUS
        <5>2. s.key \in Keys /\ Hash(ht, s.key) = b
          <6> HIDE DEF G
          <6> QED BY <1>0, <1>a, <3>1, <5>1, KeyIs
        <5>3. Has(w, s.key, r.lock) /\ r.lock \in 1 .. locks
          <6> HIDE DEF G, w
          <6> QED BY <1>0, <3>1, <4>3, <5>1, KeyIs
        <5>4. bucket_lock[ht][Hash(ht, s.key)] = "RESIZE"
          <6> HIDE DEF G
          <6> QED BY <1>0, <3>1, <5>2, <5>3 DEF KeysMove
        <5> QED BY <3>2, <5>2, <5>4
      <4>4. \A s \in G(c) : s \in slots[ht][b] /\ s.key # Null /\ Hash(w, s.key) = c
        OBVIOUS
      <4> HIDE DEF G, w
      <4>5. \A s \in slots[w][c] \cup G(c) : s.key # Null => c = Hash(w, s.key)
        BY <4>1, <4>4 DEF BucketRight
      <4>6. \A r, s \in slots[w][c] \cup G(c) : r.key = s.key /\ s.key # Null => r = s
        BY <4>1, <4>3, <4>4 DEF BucketRight
      <4> QED
        BY <4>2, <4>5, <4>6 DEF BucketRight
    <3>4. \A c \in Buckets(w) : slots'[w][c] = slots[w][c] \cup G(c)
      BY <1>0, <3>1, <3>2 DEF TablesOK
    <3>5. \A v \in Tables : v # w => slots'[v] = slots[v]
      BY <1>0, <3>1, <3>2 DEF TablesOK
    <3>6. \A v \in Tables : \A c \in Buckets(v) : BucketRight(v, c, slots'[v][c])
      <4> HIDE DEF G, F, w
      <4> QED BY <1>c, <3>3, <3>4, <3>5
    <3>7. UNCHANGED num_buckets
      BY <3>2
    <3> HIDE DEF G, F, w, b
    <3> QED
      BY <1>d, <3>6, <3>7
  <2> QED
    BY <2>1, <2>2
<1>6. CASE Call(t) \/ Look(t) \/ EnterImpl(t) \/ AwaitNew(t) \/ Reload(t) \/ ResizeRead(t)
  BY <1>1, <1>6 DEF Call, Look, EnterImpl, AwaitNew, Reload, ResizeRead, shared, content
<1>7. CASE AcquireBucket(t) \/ Release(t) \/ Publish(t) \/ LinkNew(t) \/ ResizeUnlock(t)
  BY <1>1, <1>7 DEF AcquireBucket, Release, Publish, LinkNew, ResizeUnlock, content
<1> QED
  BY <1>2, <1>3, <1>4, <1>5, <1>6, <1>7 DEF Step

(* Only the copy locks a bucket for good.                                  *)
LEMMA LockedForGood ==
  ASSUME IInv, NEW t \in Threads, Call(t) \/ Step(t)
  PROVE  \A c \in Buckets(ht) :
           bucket_lock'[ht][c] = "RESIZE" <=>
             \/ bucket_lock[ht][c] = "RESIZE"
             \/ CopyBucket(t) /\ c = bucket[t][2]
<1> USE Constants
<1>0. /\ TypeOK /\ TablesOK /\ ThreadsOK /\ CallsFit /\ WritersFit /\ OneResizer /\ BucketsFit
  BY DEF IInv, TypeOK
<1>a. ht \in Tables /\ ht \in Nat /\ ht \in 1 .. tables
  BY <1>0 DEF TablesOK, Tables
<1>1. ASSUME UNCHANGED bucket_lock, ~CopyBucket(t)
      PROVE  \A c \in Buckets(ht) :
           bucket_lock'[ht][c] = "RESIZE" <=>
             \/ bucket_lock[ht][c] = "RESIZE"
             \/ CopyBucket(t) /\ c = bucket[t][2]
  BY <1>1
<1>2. ASSUME NEW b \in Buckets(ht), NEW x, LockBucket(<<ht, b>>, x), x # "RESIZE",
             bucket_lock[ht][b] # "RESIZE", ~CopyBucket(t)
      PROVE  \A c \in Buckets(ht) :
           bucket_lock'[ht][c] = "RESIZE" <=>
             \/ bucket_lock[ht][c] = "RESIZE"
             \/ CopyBucket(t) /\ c = bucket[t][2]
  <2>1. \A c \in Buckets(ht) : bucket_lock'[ht][c] = IF c = b THEN x ELSE bucket_lock[ht][c]
    BY <1>0, <1>2, <1>a, OneBucket
  <2> QED BY <1>2, <2>1
<1>3. ASSUME pc[t] \in Holding
      PROVE  /\ bucket[t] = <<ht, bucket[t][2]>> /\ bucket[t][2] \in Buckets(ht)
             /\ bucket_lock[ht][bucket[t][2]] # "RESIZE" /\ ~CopyBucket(t)
  BY <1>0, <1>3 DEF WritersFit, ThreadsOK, Holding, CopyBucket
<1>4. CASE Call(t) \/ Look(t) \/ EnterImpl(t) \/ AwaitNew(t) \/ Reload(t) \/ ResizeRead(t)
  BY <1>1, <1>4
  DEF Call, Look, EnterImpl, AwaitNew, Reload, ResizeRead, shared, CopyBucket
<1>5. CASE WriteKey(t) \/ ChainBucket(t) \/ Publish(t) \/ LinkNew(t) \/ ResizeUnlock(t)
  BY <1>1, <1>5 DEF WriteKey, ChainBucket, Publish, LinkNew, ResizeUnlock, CopyBucket
<1>6. CASE AcquireBucket(t)
  <2>1. CASE UNCHANGED bucket_lock
    BY <1>1, <1>6, <2>1 DEF AcquireBucket, CopyBucket
  <2>2. CASE bucket_lock[bucket[t][1]][bucket[t][2]] = "FREE" /\ LockBucket(bucket[t], "UPDATE")
    <3>1. bucket[t][1] = ht /\ bucket[t] = <<ht, bucket[t][2]>> /\ bucket[t][2] \in Buckets(ht)
      <4>1. /\ bucket[t] \in Tables \X Nat /\ bucket[t][2] \in Buckets(bucket[t][1])
            /\ bucket[t][1] \in 1 .. hashtable[t] /\ hashtable[t] \in 1 .. ht
        BY <1>0, <1>6 DEF AcquireBucket, ThreadsOK, CallsFit
      <4> QED BY <1>0, <1>a, <2>2, <4>1 DEF BucketsFit
    <3>2. LockBucket(<<ht, bucket[t][2]>>, "UPDATE") /\ bucket_lock[ht][bucket[t][2]] # "RESIZE"
      BY <2>2, <3>1 DEF LockBucket
    <3> QED BY <1>2, <1>6, <3>1, <3>2 DEF AcquireBucket, CopyBucket
  <2> QED BY <1>6, <2>1, <2>2 DEF AcquireBucket
<1>7. ASSUME pc[t] \in Holding, ReleaseBucket(t)
      PROVE  \A c \in Buckets(ht) :
           bucket_lock'[ht][c] = "RESIZE" <=>
             \/ bucket_lock[ht][c] = "RESIZE"
             \/ CopyBucket(t) /\ c = bucket[t][2]
  <2>1. LockBucket(<<ht, bucket[t][2]>>, "FREE")
    BY <1>3, <1>7 DEF ReleaseBucket, LockBucket
  <2> QED BY <1>2, <1>3, <1>7, <2>1
<1>8. CASE Scan(t)
  <2>1. pc[t] \in Holding /\ (UNCHANGED bucket_lock \/ ReleaseBucket(t))
    BY <1>8 DEF Scan, Holding
  <2> QED BY <1>1, <1>3, <1>7, <2>1
<1>9. CASE Release(t)
  BY <1>7, <1>9 DEF Release, Holding
<1>10. CASE ResizeTry(t)
  <2>1. UNCHANGED bucket_lock \/ \E F : bucket_lock' = [bucket_lock EXCEPT ![tables + 1] = F]
    BY <1>10 DEF ResizeTry, shared
  <2>2. bucket_lock'[ht] = bucket_lock[ht]
    BY <1>0, <1>a, <2>1 DEF TablesOK
  <2> QED BY <1>10, <2>2 DEF ResizeTry, CopyBucket
<1>11. CASE CopyBucket(t)
  <2>1. bucket[t][1] = ht /\ bucket[t] = <<ht, bucket[t][2]>> /\ bucket[t][2] \in Buckets(ht)
    BY <1>0, <1>11 DEF CopyBucket, OneResizer, Filling, ThreadsOK
  <2>2. CASE UNCHANGED bucket_lock /\ bucket_lock[bucket[t][1]][bucket[t][2]] = "RESIZE"
    BY <1>11, <2>1, <2>2
  <2>3. CASE LockBucket(bucket[t], Copied)
    <3>1. LockBucket(<<ht, bucket[t][2]>>, "RESIZE")
      BY <2>1, <2>3 DEF LockBucket, Copied
    <3>2. \A c \in Buckets(ht) :
            bucket_lock'[ht][c] = IF c = bucket[t][2] THEN "RESIZE" ELSE bucket_lock[ht][c]
      BY <1>0, <1>a, <2>1, <3>1, OneBucket
    <3> QED BY <1>11, <3>2
  <2> QED BY <1>11, <2>2, <2>3 DEF CopyBucket
<1> QED
  BY <1>4, <1>5, <1>6, <1>8, <1>9, <1>10, <1>11 DEF Step

(* The table that is filled has what has been locked for good, so that it  *)
(* has everything when it is published.                                    *)
LEMMA KeysStep ==
  ASSUME IInv, NEW t \in Threads, Call(t) \/ Step(t)
  PROVE  KeysMove'
<1> USE Constants
<1>0. /\ TypeOK /\ TablesOK /\ ThreadsOK /\ CallsFit /\ WritersFit /\ OneResizer /\ BucketsFit
      /\ SlotsFit /\ KeysMove
  BY DEF IInv, TypeOK
<1>a. ht \in Tables /\ ht \in Nat /\ ht \in 1 .. tables /\ tables \in Nat /\ locks \in Nat
  BY <1>0 DEF TablesOK, Tables
<1>b. \A k \in Keys : Hash(ht, k) \in Buckets(ht)
  BY <1>0, <1>a, HashIn
<1>c. \A v \in 1 .. tables : \A k : Hash(v, k)' = Hash(v, k)
  BY HashStays
<1>d. \A v \in 1 .. tables, k \in Keys : \A l : Has(v, k, l) => l \in 1 .. locks
  BY <1>0, HasLock
<1>e. \A v \in 1 .. ht : v \in 1 .. tables
  BY <1>a
<1>f. tables = ht + 1 => ht + 1 \in 1 .. tables /\ ht + 1 # ht
  BY <1>a
<1>g. locks' \in Nat /\ locks' >= locks
  BY <1>a, Grows
(* What changes in the contents, and which buckets have been copied.       *)
<1>1. ASSUME UNCHANGED <<ht, tables>>, ~CopyBucket(t),
             \A v \in 1 .. tables, k \in Keys, l \in Nat : Has(v, k, l)' <=> Has(v, k, l)
      PROVE  KeysMove'
  <2>1. ASSUME NEW v \in 1 .. ht, NEW k \in Keys, NEW l \in 1 .. locks', Has(v, k, l)'
        PROVE  Has(ht, k, l)'
    <3>1. Has(v, k, l) /\ l \in 1 .. locks
      BY <1>1, <1>d, <1>e, <1>g, <2>1
    <3>2. Has(ht, k, l)
      BY <1>0, <3>1 DEF KeysMove
    <3> QED BY <1>1, <1>a, <3>1, <3>2
  <2>2. ASSUME tables = ht + 1, NEW k \in Keys, NEW l \in 1 .. locks'
        PROVE  Has(ht + 1, k, l)' <=> Has(ht, k, l)' /\ bucket_lock'[ht][Hash(ht, k)] = "RESIZE"
    <3>1. /\ Has(ht + 1, k, l)' <=> Has(ht + 1, k, l)
          /\ Has(ht, k, l)' <=> Has(ht, k, l)
      BY <1>1, <1>a, <1>f, <1>g, <2>2
    <3>2. Has(ht, k, l) \/ Has(ht + 1, k, l) => l \in 1 .. locks
      BY <1>a, <1>d, <1>f, <2>2
    <3>3. bucket_lock'[ht][Hash(ht, k)] = "RESIZE" <=> bucket_lock[ht][Hash(ht, k)] = "RESIZE"
      BY <1>1, <1>b, LockedForGood
    <3> QED BY <1>0, <2>2, <3>1, <3>2, <3>3 DEF KeysMove
  <2> QED
    BY <1>1, <1>a, <1>c, <2>1, <2>2 DEF KeysMove
<1>2. ASSUME UNCHANGED <<ht, tables, slots, num_buckets>>, ~CopyBucket(t)
      PROVE  KeysMove'
  BY <1>1, <1>2, SameHas
<1>3. CASE Call(t) \/ Look(t) \/ EnterImpl(t) \/ AwaitNew(t) \/ Reload(t) \/ ResizeRead(t)
  BY <1>2, <1>3
  DEF Call, Look, EnterImpl, AwaitNew, Reload, ResizeRead, shared, content, CopyBucket
<1>4. CASE AcquireBucket(t) \/ Release(t) \/ LinkNew(t) \/ ResizeUnlock(t)
  BY <1>2, <1>4 DEF AcquireBucket, Release, LinkNew, ResizeUnlock, content, CopyBucket
<1>5. CASE Scan(t)
  BY <1>1, <1>5, ScanHas DEF Scan, CopyBucket
<1>6. CASE WriteKey(t) \/ ChainBucket(t)
  <2>1. UNCHANGED <<ht, tables, locks>> /\ ~CopyBucket(t)
    BY <1>6 DEF WriteKey, ChainBucket, CopyBucket
  <2>2. bucket_lock[ht][Hash(ht, key[t])] # "RESIZE" /\ key[t] \in Keys
    <3>1. /\ bucket[t][1] = ht /\ bucket[t][2] = Hash(bucket[t][1], key[t])
          /\ bucket_lock[ht][bucket[t][2]] = "UPDATE" /\ key[t] \in Keys
      BY <1>0, <1>6 DEF WriteKey, ChainBucket, CallsFit, WritersFit, Holding
    <3> QED BY <3>1
  <2>3. ASSUME NEW v \in 1 .. ht, NEW k \in Keys, NEW l \in 1 .. locks, Has(v, k, l)'
        PROVE  Has(ht, k, l)'
    <3>1. Has(v, k, l) => Has(ht, k, l)
      BY <1>0, <2>3 DEF KeysMove
    <3> QED BY <1>6, <1>a, <1>e, <2>1, <2>3, <3>1, WriteHas
  <2>4. ASSUME tables = ht + 1, NEW k \in Keys, NEW l \in 1 .. locks
        PROVE  Has(ht + 1, k, l)' <=> Has(ht, k, l)' /\ bucket_lock'[ht][Hash(ht, k)] = "RESIZE"
    <3>1. /\ Has(ht + 1, k, l)' <=> Has(ht + 1, k, l)
          /\ Has(ht, k, l)' <=> Has(ht, k, l) \/ (k = key[t] /\ l = new_lock[t])
      BY <1>6, <1>a, <1>f, <2>1, <2>4, WriteHas
    <3>2. bucket_lock'[ht][Hash(ht, k)] = "RESIZE" <=> bucket_lock[ht][Hash(ht, k)] = "RESIZE"
      BY <1>b, <2>1, LockedForGood
    <3>3. Has(ht + 1, k, l) <=> Has(ht, k, l) /\ bucket_lock[ht][Hash(ht, k)] = "RESIZE"
      BY <1>0, <2>4 DEF KeysMove
    <3> QED BY <2>2, <3>1, <3>2, <3>3
  <2> QED
    BY <1>a, <1>c, <2>1, <2>3, <2>4 DEF KeysMove
<1>7. CASE ResizeTry(t)
  <2>1. CASE UNCHANGED shared
    BY <1>2, <1>7, <2>1 DEF shared, content, ResizeTry, CopyBucket
  <2>2. CASE /\ resize_lock = 0 /\ tables' = tables + 1 /\ UNCHANGED <<ht, locks>>
    <3>1. \A u \in Threads : pc[u] \notin Filling
      BY <1>0, <2>2 DEF OneResizer, Filling, Resizing
    <3>2. tables = ht /\ \A b \in Buckets(ht) : bucket_lock[ht][b] # "RESIZE"
      BY <1>0, <3>1 DEF OneResizer, BucketsFit
    <3>3. ASSUME NEW v \in 1 .. ht, NEW k \in Keys, NEW l \in 1 .. locks, Has(v, k, l)'
          PROVE  Has(ht, k, l)'
      <4>1. v \in 1 .. tables' /\ ht \in 1 .. tables'
        BY <1>a, <2>2, <3>2
      <4>2. Has(v, k, l)
        BY <1>7, <1>a, <3>3, <4>1, CreateHas
      <4>3. Has(ht, k, l)
        BY <1>0, <3>3, <4>2 DEF KeysMove
      <4>4. ht \in 1 .. tables /\ ht' = ht
        BY <1>a, <2>2
      <4> QED BY <1>7, <1>a, <4>1, <4>3, <4>4, CreateHas
    <3>4. ASSUME NEW k \in Keys, NEW l \in 1 .. locks
          PROVE  ~Has(ht + 1, k, l)' /\ bucket_lock'[ht][Hash(ht, k)] # "RESIZE"
      <4>1. ht + 1 \in 1 .. tables' /\ ht + 1 \notin 1 .. tables
        BY <1>a, <2>2, <3>2
      <4>2. ~Has(ht + 1, k, l)'
        BY <1>7, <1>a, <2>2, <4>1, CreateHas
      <4>3. ~CopyBucket(t)
        BY <1>7 DEF ResizeTry, CopyBucket
      <4> QED BY <1>b, <3>2, <4>2, <4>3, LockedForGood
    <3> QED
      BY <1>a, <1>c, <2>2, <3>3, <3>4 DEF KeysMove
  <2> QED BY <1>7, <2>1, <2>2 DEF ResizeTry
<1>8. CASE CopyBucket(t)
  <2>1. UNCHANGED <<ht, tables, locks>>
    BY <1>8 DEF CopyBucket
  <2>2. ASSUME NEW v \in 1 .. ht, NEW k \in Keys, NEW l \in 1 .. locks, Has(v, k, l)'
        PROVE  Has(ht, k, l)'
    <3>1. Has(v, k, l)
      BY <1>8, <2>2, CopyHas
    <3>2. Has(ht, k, l) /\ ht \in 1 .. ht
      BY <1>0, <1>a, <2>2, <3>1 DEF KeysMove
    <3> QED BY <1>8, <2>1, <3>2, CopyHas
  <2>3. ASSUME tables = ht + 1, NEW k \in Keys, NEW l \in 1 .. locks
        PROVE  Has(ht + 1, k, l)' <=> Has(ht, k, l)' /\ bucket_lock'[ht][Hash(ht, k)] = "RESIZE"
    <3>1. ht + 1 \in Tables /\ ht \in 1 .. ht
      BY <1>0, <1>a, <2>3 DEF TablesOK
    <3>2. /\ Has(ht, k, l)' <=> Has(ht, k, l)
          /\ Has(ht + 1, k, l)' <=>
               Has(ht + 1, k, l) \/ (Has(ht, k, l) /\ Hash(ht, k) = bucket[t][2])
      BY <1>8, <2>1, <3>1, CopyHas
    <3>3. bucket_lock'[ht][Hash(ht, k)] = "RESIZE" <=>
            bucket_lock[ht][Hash(ht, k)] = "RESIZE" \/ Hash(ht, k) = bucket[t][2]
      BY <1>8, <1>b, LockedForGood
    <3>4. Has(ht + 1, k, l) <=> Has(ht, k, l) /\ bucket_lock[ht][Hash(ht, k)] = "RESIZE"
      BY <1>0, <2>3 DEF KeysMove
    <3> QED BY <3>2, <3>3, <3>4
  <2> QED
    BY <1>a, <1>c, <2>1, <2>2, <2>3 DEF KeysMove
<1>9. CASE Publish(t)
  <2>1. /\ ht' = ht + 1 /\ tables' = tables /\ tables = ht + 1
        /\ UNCHANGED <<slots, num_buckets, locks>>
        /\ \A b \in Buckets(ht) : bucket_lock[ht][b] = "RESIZE"
    BY <1>0, <1>9 DEF Publish, OneResizer, BucketsFit, Filling, content
  <2>2. \A v, k, l : Has(v, k, l)' <=> Has(v, k, l)
    BY <2>1 DEF Has, Hash, Slot
  <2>3. ASSUME NEW v \in 1 .. ht + 1, NEW k \in Keys, NEW l \in 1 .. locks, Has(v, k, l)
        PROVE  Has(ht + 1, k, l)
    <3>1. CASE v = ht + 1
      BY <2>3, <3>1
    <3>2. CASE v # ht + 1
      <4>1. v \in 1 .. ht
        BY <1>a, <3>2
      <4>2. Has(ht, k, l)
        BY <1>0, <2>3, <4>1 DEF KeysMove
      <4>3. bucket_lock[ht][Hash(ht, k)] = "RESIZE"
        BY <1>b, <2>1
      <4> QED BY <1>0, <2>1, <4>2, <4>3 DEF KeysMove
    <3> QED BY <3>1, <3>2
  <2>4. tables' # ht' + 1
    BY <1>a, <2>1
  <2> QED
    BY <2>1, <2>2, <2>3, <2>4 DEF KeysMove
<1> QED
  BY <1>3, <1>4, <1>5, <1>6, <1>7, <1>8, <1>9 DEF Step


(* What a step does to what the table in use, and the older ones, have.    *)
LEMMA HasChange ==
  ASSUME IInv, NEW t \in Threads, Call(t) \/ Step(t)
  PROVE  \A v \in 1 .. ht, k \in Keys, l \in 1 .. locks' :
           Has(v, k, l)' <=>
             \/ Has(v, k, l)
             \/ /\ WriteKey(t) \/ ChainBucket(t)
                /\ v = ht /\ k = key[t] /\ l = new_lock[t]
<1>0. TypeOK /\ TablesOK
  BY DEF IInv, TypeOK
<1>a. ht \in 1 .. tables /\ ht \in Nat /\ tables \in Nat /\ locks' \in Nat
      /\ \A v \in 1 .. ht : v \in 1 .. tables
  BY <1>0, Grows, Constants DEF TablesOK, Tables
<1> SUFFICES ASSUME NEW v \in 1 .. ht, NEW k \in Keys, NEW l \in 1 .. locks'
             PROVE  Has(v, k, l)' <=>
                      \/ Has(v, k, l)
                      \/ /\ WriteKey(t) \/ ChainBucket(t)
                         /\ v = ht /\ k = key[t] /\ l = new_lock[t]
  OBVIOUS
<1>b. v \in 1 .. tables /\ l \in Nat
  BY <1>a
<1>1. ASSUME UNCHANGED <<slots, num_buckets>>, ~WriteKey(t), ~ChainBucket(t)
      PROVE  Has(v, k, l)' <=>
               \/ Has(v, k, l)
               \/ (WriteKey(t) \/ ChainBucket(t)) /\ v = ht /\ k = key[t] /\ l = new_lock[t]
  BY <1>1, SameHas
<1>2. CASE Call(t) \/ Look(t) \/ EnterImpl(t) \/ AwaitNew(t) \/ Reload(t) \/ ResizeRead(t)
  BY <1>1, <1>2
  DEF Call, Look, EnterImpl, AwaitNew, Reload, ResizeRead, shared, content, WriteKey, ChainBucket
<1>3. CASE AcquireBucket(t) \/ Release(t) \/ Publish(t) \/ LinkNew(t) \/ ResizeUnlock(t)
  BY <1>1, <1>3
  DEF AcquireBucket, Release, Publish, LinkNew, ResizeUnlock, content, WriteKey, ChainBucket
<1>4. CASE Scan(t)
  <2>1. ~WriteKey(t) /\ ~ChainBucket(t)
    BY <1>4 DEF Scan, WriteKey, ChainBucket
  <2> QED BY <1>4, <1>b, <2>1, ScanHas
<1>5. CASE WriteKey(t) \/ ChainBucket(t)
  BY <1>5, <1>b, WriteHas
<1>6. CASE ResizeTry(t)
  <2>1. ~WriteKey(t) /\ ~ChainBucket(t) /\ v \in 1 .. tables'
    BY <1>6, <1>a, <1>b, Grows DEF ResizeTry, WriteKey, ChainBucket
  <2> QED BY <1>6, <1>b, <2>1, CreateHas
<1>7. CASE CopyBucket(t)
  <2>1. ~WriteKey(t) /\ ~ChainBucket(t) /\ l \in 1 .. locks
    BY <1>7 DEF CopyBucket, WriteKey, ChainBucket
  <2> QED BY <1>7, <2>1, CopyHas
<1> QED
  BY <1>2, <1>3, <1>4, <1>5, <1>6, <1>7 DEF Step

(* So nothing that the table in use has is lost, even as it is replaced.   *)
LEMMA HasStays ==
  ASSUME IInv, NEW t \in Threads, Call(t) \/ Step(t)
  PROVE  \A k \in Keys, l \in 1 .. locks : Has(ht, k, l) => Has(ht, k, l)'
<1>1. ht \in 1 .. ht /\ ht \in 1 .. ht' /\ 1 .. locks \subseteq 1 .. locks'
  <2>1. ht \in 1 .. tables /\ tables \in Nat /\ locks \in Nat
    BY Constants DEF IInv, TypeOK, TablesOK, Tables
  <2> QED BY <2>1, Grows
<1> SUFFICES ASSUME NEW k \in Keys, NEW l \in 1 .. locks, Has(ht, k, l)
             PROVE  Has(ht, k, l)'
  OBVIOUS
<1>2. PICK v \in 1 .. ht : v = ht
  BY <1>1
<1>3. Has(v, k, l)'
  BY <1>1, <1>2, HasChange
<1> QED
  BY <1>1, <1>2, <1>3, KeysStep DEF KeysMove

(* A step of one thread is none of another.                                *)
LEMMA OthersStay ==
  ASSUME ThreadsOK, NEW t \in Threads, Call(t) \/ Step(t)
  PROVE  \A u \in Threads : u # t => UNCHANGED <<pc[u], op[u], key[u], hashtable[u], new_lock[u]>>
<1> USE DEF ThreadsOK, Goto
<1>1. ASSUME NEW l, Return(t, l)
      PROVE  \A u \in Threads : u # t =>
               UNCHANGED <<pc[u], op[u], key[u], hashtable[u], new_lock[u]>>
  BY <1>1 DEF Return
<1>2. CASE Call(t)
  BY <1>2 DEF Call
<1>3. CASE Look(t)
  BY <1>1, <1>3 DEF Look, local
<1>4. CASE EnterImpl(t) \/ AwaitNew(t) \/ Reload(t) \/ ResizeRead(t) \/ AcquireBucket(t)
  BY <1>4 DEF EnterImpl, AwaitNew, Reload, ResizeRead, AcquireBucket, local
<1>5. CASE Scan(t)
  BY <1>1, <1>5 DEF Scan
<1>6. CASE WriteKey(t) \/ ChainBucket(t) \/ LinkNew(t) \/ Publish(t) \/ CopyBucket(t)
  BY <1>6 DEF WriteKey, ChainBucket, LinkNew, Publish, CopyBucket, local
<1>7. CASE Release(t) \/ ResizeUnlock(t)
  BY <1>1, <1>7 DEF Release, ResizeUnlock, local
<1>8. CASE ResizeTry(t)
  BY <1>1, <1>8 DEF ResizeTry
<1> QED
  BY <1>2, <1>3, <1>4, <1>5, <1>6, <1>7, <1>8 DEF Step


(* A call returns what the table in use has for its address; a writer that *)
(* has found nothing puts the address in before anybody else can.          *)
LEMMA AnswersStep ==
  ASSUME IInv, NEW t \in Threads, Call(t) \/ Step(t)
  PROVE  AnswersFit'
<1> USE Constants DEF Goto, Made, Resizing
<1>0. /\ TypeOK /\ TablesOK /\ ThreadsOK /\ CallsFit /\ WritersFit /\ OneResizer /\ BucketsFit
      /\ SlotsFit /\ KeysMove /\ AnswersFit
  BY DEF IInv, TypeOK
<1>a. ht \in Tables /\ ht \in Nat /\ ht \in 1 .. tables /\ tables \in Nat /\ locks \in Nat
      /\ ht \in 1 .. ht /\ \A v \in 1 .. ht : v \in 1 .. tables
  BY <1>0 DEF TablesOK, Tables
<1>b. locks' \in Nat /\ 1 .. locks \subseteq 1 .. locks'
  BY <1>a, Grows
<1>c. \A v \in 1 .. tables, k \in Keys : \A l : Has(v, k, l) => l \in 1 .. locks /\ Find(v, k) # {}
  BY <1>0, HasLock, FindIs
<1>d. \A v \in 1 .. ht, k \in Keys, l \in 1 .. locks : Has(v, k, l) => Has(v, k, l)'
  BY <1>b, HasChange
<1>e. \A k \in Keys, l \in 1 .. locks : Has(ht, k, l) => Has(ht, k, l)'
  BY HasStays
<1>f. \A u \in Threads : u # t => UNCHANGED <<pc[u], op[u], key[u], hashtable[u], new_lock[u]>>
  BY <1>0, OthersStay
(* The other threads: a writer has its bucket for itself.                  *)
<1>1. ASSUME NEW u \in Threads, u # t, pc[u] \in {"write_key", "chain"},
             NEW l \in 1 .. locks'
      PROVE  ~Has(ht, key[u], l)'
  <2>1. pc[u] \in Holding /\ key[u] \in Keys /\ key'[u] = key[u]
        /\ bucket_lock[ht][Hash(ht, key[u])] = "UPDATE" /\ Hash(ht, key[u]) \in Buckets(ht)
        /\ bucket[u] = <<ht, Hash(ht, key[u])>>
    <3>1. /\ key[u] \in Keys /\ bucket[u] \in Tables \X Nat /\ bucket[u][1] = ht
          /\ bucket[u][2] = Hash(bucket[u][1], key[u]) /\ bucket_lock[ht][bucket[u][2]] = "UPDATE"
      BY <1>0, <1>1 DEF CallsFit, WritersFit, ThreadsOK, Holding
    <3>2. bucket[u] = <<bucket[u][1], bucket[u][2]>>
      BY <3>1
    <3>3. bucket[u][2] = Hash(ht, key[u])
      BY <3>1
    <3>4. Hash(ht, key[u]) \in Buckets(ht)
      BY <1>0, <1>a, <3>1, HashIn
    <3>5. bucket_lock[ht][Hash(ht, key[u])] = "UPDATE" /\ bucket[u] = <<ht, Hash(ht, key[u])>>
      BY <3>1, <3>2, <3>3
    <3>6. pc[u] \in Holding /\ key'[u] = key[u]
      BY <1>1, <1>f DEF Holding
    <3> QED BY <3>1, <3>4, <3>5, <3>6
  <2>2. ht' = ht
    <3>1. ~Publish(t)
      BY <1>0, <2>1 DEF Publish, BucketsFit
    <3> QED BY <3>1
    DEF Step, Call, Look, EnterImpl, AwaitNew, Reload, AcquireBucket, Scan, WriteKey, ChainBucket,
        Release, ResizeRead, ResizeTry, CopyBucket, LinkNew, ResizeUnlock, shared
  <2>3. ASSUME NEW k \in Keys, k = key[u] PROVE ~Has(ht, k, l)'
    <3>1. ~Has(ht, k, l)
      BY <1>0, <1>1, <1>a, <1>c, <2>3 DEF AnswersFit
    <3>2. (WriteKey(t) \/ ChainBucket(t)) => k # key[t]
      <4> SUFFICES ASSUME WriteKey(t) \/ ChainBucket(t), k = key[t] PROVE FALSE
        OBVIOUS
      <4>1. pc[t] \in Holding /\ bucket[t] = <<ht, Hash(ht, key[t])>>
        <5>1. pc[t] \in Holding
          BY DEF WriteKey, ChainBucket, Holding
        <5>2. /\ bucket[t] \in Tables \X Nat /\ bucket[t][1] = ht
              /\ bucket[t][2] = Hash(bucket[t][1], key[t])
          BY <1>0, <5>1 DEF CallsFit, WritersFit, ThreadsOK, Holding
        <5> QED BY <5>1, <5>2
      <4> QED BY <1>0, <1>1, <2>1, <2>3, <4>1 DEF WritersFit
    <3> QED BY <1>1, <1>a, <2>2, <3>1, <3>2, HasChange
  <2> QED BY <2>1, <2>3
<1>2. ASSUME NEW u \in Threads, u # t
      PROVE  /\ pc'[u] \in Made => Has(ht, key[u], new_lock[u])'
             /\ pc'[u] = "look" /\ op'[u] = "get" =>
                  \E l \in 1 .. locks' : Has(hashtable[u], key[u], l)'
  <2>1. UNCHANGED <<pc[u], op[u], key[u], hashtable[u], new_lock[u]>>
    BY <1>2, <1>f
  <2>2. ASSUME pc[u] \in Made PROVE Has(ht, key[u], new_lock[u])'
    <3>1. key[u] \in Keys /\ new_lock[u] \in 1 .. locks /\ Has(ht, key[u], new_lock[u])
      BY <1>0, <2>2 DEF CallsFit, AnswersFit
    <3> QED BY <1>e, <2>1, <3>1
  <2>3. ASSUME pc[u] = "look", op[u] = "get"
        PROVE  \E l \in 1 .. locks' : Has(hashtable[u], key[u], l)'
    <3>1. key[u] \in Keys /\ hashtable[u] \in 1 .. ht
          /\ \E l \in 1 .. locks : Has(hashtable[u], key[u], l)
      BY <1>0, <2>3 DEF CallsFit, AnswersFit
    <3> QED BY <1>b, <1>d, <2>1, <3>1
  <2> QED BY <2>1, <2>2, <2>3
<1>3. \A k \in Keys : \A l \in got[k] : l \in 1 .. locks' /\ Has(ht, k, l)'
  BY <1>0, <1>b, <1>e DEF AnswersFit
(* What is left to show of each action.                                    *)
<1>4. ASSUME got' = got,
             pc'[t] \notin {"write_key", "chain", "look"} \cup Made
      PROVE  AnswersFit'
  BY <1>1, <1>2, <1>3, <1>4, <1>f DEF AnswersFit
<1>5. ASSUME NEW k, k = key[t], NEW l, Return(t, l), pc[t] # "idle",
             op[t] = "put_init" \/ (l \in 1 .. locks' /\ Has(ht, k, l)')
      PROVE  AnswersFit'
  <2>1. pc'[t] = "idle"
    BY <1>0, <1>5 DEF Return, ThreadsOK
  <2>2. ASSUME NEW j \in Keys, NEW m \in got'[j]
        PROVE  m \in 1 .. locks' /\ Has(ht, j, m)'
    <3>1. CASE m \in got[j]
      BY <1>3, <3>1
    <3>2. CASE m \notin got[j]
      <4>1. j = k /\ m = l /\ op[t] # "put_init"
        BY <1>0, <1>5, <2>2, <3>2 DEF Return, ThreadsOK
      <4> QED BY <1>5, <4>1
    <3> QED BY <3>1, <3>2
  <2> QED BY <1>1, <1>2, <1>f, <2>1, <2>2 DEF AnswersFit
<1>6. ASSUME UNCHANGED <<got, key, new_lock>>, pc[t] \in Made, pc'[t] \in Made
      PROVE  AnswersFit'
  <2>1. key[t] \in Keys /\ new_lock[t] \in 1 .. locks /\ Has(ht, key[t], new_lock[t])
    BY <1>0, <1>6 DEF CallsFit, AnswersFit
  <2>2. Has(ht, key[t], new_lock[t])'
    BY <1>6, <1>e, <2>1
  <2> QED BY <1>1, <1>2, <1>3, <1>6, <1>f, <2>2 DEF AnswersFit
<1>g. ASSUME Return(t, new_lock[t]), pc[t] \in Made PROVE AnswersFit'
  <2>1. PICK k \in Keys, l \in 1 .. locks : k = key[t] /\ l = new_lock[t] /\ Has(ht, k, l)
    BY <1>0, <1>g DEF CallsFit, AnswersFit
  <2> QED BY <1>5, <1>g, <1>b, <1>e, <2>1
<1>7. CASE Call(t)
  <2>1. PICK k \in Keys :
          /\ key' = [key EXCEPT ![t] = k]
          /\ hashtable' = [hashtable EXCEPT ![t] = ht]
          /\ \/ Goto(t, "look") /\ (op'[t] = "get" => got[k] # {})
             \/ Goto(t, "acquire")
    BY <1>0, <1>7 DEF Call, ThreadsOK
  <2>2. key'[t] = k /\ hashtable'[t] = ht /\ pc'[t] \in {"look", "acquire"} /\ got' = got
        /\ (pc'[t] = "look" /\ op'[t] = "get" => got[k] # {})
    BY <1>0, <1>7, <2>1 DEF Call, ThreadsOK
  <2>3. ASSUME pc'[t] = "look", op'[t] = "get"
        PROVE  \E l \in 1 .. locks' : Has(hashtable[t], key[t], l)'
    <3>1. PICK l \in got[k] : l \in 1 .. locks /\ Has(ht, k, l)
      BY <1>0, <2>2, <2>3 DEF AnswersFit
    <3> QED BY <1>a, <1>b, <1>d, <2>2, <3>1
  <2> QED BY <1>1, <1>2, <1>3, <1>f, <2>2, <2>3 DEF AnswersFit
<1>8. CASE Look(t)
  <2>1. hashtable[t] \in 1 .. ht /\ key[t] \in Keys /\ pc[t] = "look"
    BY <1>0, <1>8 DEF Look, CallsFit
  <2>2. CASE Find(hashtable[t], key[t]) # {} /\ Return(t, LockOf(hashtable[t], key[t]))
    <3>1. PICK k, l : k \in Keys /\ k = key[t] /\ l = LockOf(hashtable[t], key[t])
      BY <2>1
    <3>2. l \in 1 .. locks /\ Has(hashtable[t], k, l)
      BY <1>0, <1>a, <2>1, <2>2, <3>1, LockOfIs
    <3>3. Has(ht, k, l)
      BY <1>0, <2>1, <3>1, <3>2 DEF KeysMove
    <3> QED BY <1>5, <1>b, <1>e, <2>1, <2>2, <3>1, <3>2, <3>3
  <2>3. CASE Find(hashtable[t], key[t]) = {} /\ op[t] = "get"
    BY <1>0, <1>a, <1>c, <2>1, <2>3 DEF AnswersFit
  <2>4. CASE Goto(t, "enter") /\ UNCHANGED <<local, got>>
    BY <1>0, <1>4, <2>4 DEF ThreadsOK
  <2> QED BY <1>8, <2>2, <2>3, <2>4 DEF Look
<1>9. CASE EnterImpl(t) \/ AwaitNew(t) \/ Reload(t) \/ AcquireBucket(t)
  BY <1>0, <1>4, <1>9 DEF EnterImpl, AwaitNew, Reload, AcquireBucket, ThreadsOK, local
<1>10. CASE Scan(t)
  <2>1. bucket[t][1] = ht /\ key[t] \in Keys /\ pc[t] = "scan"
    BY <1>0, <1>10 DEF Scan, CallsFit, WritersFit, Holding
  <2>2. CASE Present(bucket[t][1], key[t]) /\ Return(t, LockOf(bucket[t][1], key[t]))
    <3>1. PICK k, l : k \in Keys /\ k = key[t] /\ l = LockOf(bucket[t][1], key[t])
      BY <2>1
    <3>2. l \in 1 .. locks /\ Has(ht, k, l)
      BY <1>0, <1>a, <2>1, <2>2, <3>1, LockOfIs DEF Present
    <3> QED BY <1>5, <1>b, <1>e, <2>1, <2>2, <3>1, <3>2
  <2>3. CASE /\ ~Present(bucket[t][1], key[t]) /\ UNCHANGED <<ht, key, got>>
             /\ Goto(t, "write_key") \/ Goto(t, "chain")
    <3>1. Find(ht, key[t]) = {}
      BY <2>1, <2>3 DEF Present
    <3>2. ASSUME NEW l \in 1 .. locks' PROVE ~Has(ht, key[t], l)'
      <4>1. ~WriteKey(t) /\ ~ChainBucket(t)
        BY <2>1 DEF WriteKey, ChainBucket
      <4>2. ~Has(ht, key[t], l)
        BY <3>1, FindIs
      <4> QED BY <1>a, <2>1, <2>3, <4>1, <4>2, HasChange
    <3>3. pc'[t] \in {"write_key", "chain"}
      BY <1>0, <2>3 DEF ThreadsOK
    <3> QED BY <1>1, <1>2, <1>3, <1>f, <2>3, <3>2, <3>3 DEF AnswersFit
  <2> QED BY <1>10, <2>2, <2>3 DEF Scan
<1>11. CASE WriteKey(t) \/ ChainBucket(t)
  <2>1. key[t] \in Keys /\ new_lock[t] \in 1 .. locks
    BY <1>0, <1>11 DEF WriteKey, ChainBucket, CallsFit
  <2>2. UNCHANGED <<ht, key, new_lock, got>> /\ pc'[t] = "release"
    BY <1>0, <1>11 DEF WriteKey, ChainBucket, ThreadsOK, local
  <2>3. Has(ht, key[t], new_lock[t])'
    BY <1>11, <1>a, <1>b, <2>1, <2>2, HasChange
  <2> QED BY <1>1, <1>2, <1>3, <1>f, <2>2, <2>3 DEF AnswersFit
<1>12. CASE Release(t)
  <2>1. pc[t] \in Made /\ pc[t] # "idle"
    BY <1>12 DEF Release
  <2>2. CASE Return(t, new_lock[t])
    BY <1>g, <2>1, <2>2
  <2>3. CASE Goto(t, "resize_read") /\ UNCHANGED <<local, got>>
    BY <1>0, <1>6, <2>1, <2>3 DEF ThreadsOK, local
  <2> QED BY <1>12, <2>2, <2>3 DEF Release
<1>13. CASE ResizeRead(t) \/ CopyBucket(t) \/ Publish(t) \/ LinkNew(t)
  BY <1>0, <1>6, <1>13 DEF ResizeRead, CopyBucket, Publish, LinkNew, ThreadsOK, local
<1>14. CASE ResizeTry(t)
  <2>1. pc[t] \in Made /\ pc[t] # "idle"
    BY <1>14 DEF ResizeTry
  <2>2. CASE Return(t, new_lock[t])
    BY <1>g, <2>1, <2>2
  <2>3. CASE Goto(t, "copy") /\ UNCHANGED <<got, key, new_lock>>
    BY <1>0, <1>6, <2>1, <2>3 DEF ThreadsOK, local
  <2> QED BY <1>14, <2>2, <2>3 DEF ResizeTry
<1>15. CASE ResizeUnlock(t)
  <2>1. pc[t] \in Made /\ pc[t] # "idle"
    BY <1>15 DEF ResizeUnlock
  <2>2. CASE Return(t, new_lock[t])
    BY <1>g, <2>1, <2>2
  <2>3. CASE Goto(t, "resize_read") /\ UNCHANGED <<local, got>>
    BY <1>0, <1>6, <2>1, <2>3 DEF ThreadsOK, local
  <2> QED BY <1>15, <2>2, <2>3 DEF ResizeUnlock
<1> QED
  BY <1>7, <1>8, <1>9, <1>10, <1>11, <1>12, <1>13, <1>14, <1>15 DEF Step


----------------------------------------------------------------------------
(* The invariant.                                                          *)

LEMMA InitHolds == Init => IInv
<1> SUFFICES ASSUME Init PROVE IInv
  OBVIOUS
<1> USE Constants
<1>1. TypeOK
  BY TypeInit
<1>2. /\ ht = 1 /\ tables = 1 /\ locks = 0 /\ Tables \subseteq Nat \ {0}
      /\ \A t \in Threads : pc[t] = "idle" /\ resize[t] = FALSE
      /\ \A v \in Tables : \A b \in Buckets(v) :
           v = 1 /\ slots[v][b] = {} /\ bucket_lock[v][b] = "FREE"
      /\ \A k \in Keys : got[k] = {}
  BY DEF Init, Tables, Buckets, EmptyTable, FreeTable
<1>3. CallsFit /\ WritersFit /\ OneResizer
  BY <1>2 DEF CallsFit, WritersFit, OneResizer, Holding, Made, Charged, Resizing, Filling
<1>4. BucketsFit
  BY <1>1, <1>2 DEF BucketsFit, TypeOK, TablesOK
<1>5. SlotsFit
  <2>1. IsFiniteSet({})
    BY FS_EmptySet
  <2>2. \A v \in Tables : \A b \in Buckets(v) : slots[v][b] = {}
    BY <1>2
  <2> QED BY <2>1, <2>2 DEF SlotsFit
<1>6. KeysMove
  BY <1>2 DEF KeysMove
<1>7. AnswersFit
  BY <1>2 DEF AnswersFit, Made, Resizing
<1> QED
  BY <1>1, <1>3, <1>4, <1>5, <1>6, <1>7 DEF IInv

LEMMA ActionKeeps ==
  ASSUME IInv, NEW t \in Threads, Call(t) \/ Step(t)
  PROVE  IInv'
<1>1. TypeOK'
  BY TablesStep, ThreadsStep DEF TypeOK
<1> QED
  BY <1>1, CallsStep, WritersStep, OneResizerStep, BucketsStep, SlotsStep, KeysStep, AnswersStep
  DEF IInv

LEMMA StepKeeps == IInv /\ [Next]_vars => IInv'
<1> SUFFICES ASSUME IInv, [Next]_vars PROVE IInv'
  OBVIOUS
<1>1. CASE UNCHANGED vars
  <2> USE <1>1 DEF vars, shared, content, local
  <2>1. TypeOK'
    BY DEF IInv, TypeOK, TablesOK, ThreadsOK, Buckets
  <2>2. (CallsFit /\ WritersFit /\ OneResizer /\ BucketsFit)'
    BY DEF IInv, CallsFit, WritersFit, OneResizer, BucketsFit, Hash, Threshold, Buckets
  <2>3. (SlotsFit /\ KeysMove /\ AnswersFit)'
    BY DEF IInv, SlotsFit, KeysMove, AnswersFit, Has, Hash, Buckets, Slot
  <2> QED BY <2>1, <2>2, <2>3 DEF IInv
<1>2. CASE Next
  BY <1>2, ActionKeeps DEF Next
<1> QED
  BY <1>1, <1>2

(* The invariant holds in every reachable state.                           *)
THEOREM Inductive == Spec => []IInv
<1> QED
  BY InitHolds, StepKeeps, PTL DEF Spec

(* Every variable keeps its type: whatever table and bucket a thread       *)
(* remembers, they exist, and the copy of a table stays within it.         *)
THEOREM TypeCorrect == Spec => []TypeOK
<1>1. IInv => TypeOK
  BY DEF IInv
<1> QED
  BY <1>1, Inductive, PTL

(* clht_lp_put_type, clht_lp_put_init and clht_lp_get: the calls for one   *)
(* address all return one lock, whatever tables they have read.            *)
THEOREM OneLock == Spec => []OneLockPerKey
<1>1. IInv => OneLockPerKey
  <2> SUFFICES ASSUME IInv, NEW k \in Keys
               PROVE  Cardinality(got[k]) <= 1 /\ Null \notin got[k]
    BY DEF OneLockPerKey
  <2>1. \A l \in got[k] : l \in 1 .. locks /\ Has(ht, k, l)
    BY DEF IInv, AnswersFit
  <2>2. Null \notin got[k]
    BY <2>1, Constants DEF IInv, TypeOK, TablesOK
  <2>3. CASE got[k] = {}
    BY <2>2, <2>3, FS_EmptySet
  <2>4. CASE got[k] # {}
    <3>1. PICK l : l \in got[k]
      BY <2>4
    <3>2. \A m \in got[k] : m = l
      BY <2>1, <3>1, HasOne DEF IInv, TypeOK, TablesOK
    <3>3. got[k] = {l}
      BY <3>1, <3>2
    <3> QED BY <2>2, <3>3, FS_Singleton
  <2> QED BY <2>3, <2>4
<1> QED
  BY <1>1, Inductive, PTL

(* ht_resize_pes: the table that it has read before it took the resize     *)
(* lock is still the one in use when it copies it.                         *)
THEOREM ResizesInUse == Spec => []ResizesTheTableInUse
<1>1. IInv => ResizesTheTableInUse
  BY DEF IInv, OneResizer, Filling, ResizesTheTableInUse
<1> QED
  BY <1>1, Inductive, PTL

(* bucket_cpy, ht_resize_pes and the writers: what can be found under an   *)
(* address can be found in every later table.                              *)
THEOREM KeysNeverMove == Spec => KeysStay
<1> DEFINE P == \A k \in Keys :
                  Find(ht, k) # {} => Find(ht, k)' # {} /\ LockOf(ht, k)' = LockOf(ht, k)
<1>1. IInv /\ IInv' /\ [Next]_vars => [P]_vars
  <2> SUFFICES ASSUME IInv, IInv', Next, NEW k \in Keys, Find(ht, k) # {}
               PROVE  Find(ht, k)' # {} /\ LockOf(ht, k)' = LockOf(ht, k)
    BY DEF P
  <2>1. PICK t \in Threads : Call(t) \/ Step(t)
    BY DEF Next
  <2>2. PICK l \in 1 .. locks : l = LockOf(ht, k) /\ Has(ht, k, l)
    BY LockOfIs DEF IInv, TypeOK, TablesOK
  <2>3. Has(ht, k, l)'
    BY <2>1, <2>2, HasStays
  <2>4. Slot(k, l) \in Find(ht, k)'
    BY <2>3 DEF Has, Find, Slot
  <2>5. ht' \in Tables /\ Hash(ht, k)' \in Buckets(ht)'
    <3>1. ht' \in Tables /\ num_buckets'[ht'] \in Nat /\ num_buckets'[ht'] > 0 /\ k \in Nat
      BY Constants DEF IInv, TypeOK, TablesOK, Tables
    <3>2. ASSUME NEW n \in Nat, n > 0 PROVE k % n \in 0 .. n - 1
      BY <3>1, <3>2
    <3> QED BY <3>1, <3>2 DEF Hash, Buckets
  <2>6. ASSUME NEW s \in Find(ht, k)' PROVE s.lock = l
    <3>1. s \in slots'[ht'][Hash(ht, k)'] /\ s.key = k
      BY <2>6 DEF Find
    <3>2. Slot(k, l) \in slots'[ht'][Hash(ht, k)'] /\ Slot(k, l).key = k /\ Slot(k, l).lock = l
      BY <2>3 DEF Has, Slot
    <3> QED BY <2>5, <3>1, <3>2, Constants DEF IInv, SlotsFit
  <2>7. LockOf(ht, k)' = l
    <3>1. (CHOOSE s \in Find(ht, k)' : TRUE) \in Find(ht, k)'
      BY <2>4
    <3> QED BY <2>6, <3>1 DEF LockOf
  <2> QED
    BY <2>2, <2>4, <2>7
<1>2. [][P]_vars => KeysStay
  BY PTL DEF KeysStay
<1> QED
  BY <1>1, <1>2, Inductive, StepKeeps, PTL DEF Spec
=============================================================================
