-------------------------------- MODULE Clht --------------------------------
(***************************************************************************)
(* CLHT, the concurrent hash table of src/clht_lock_pointer.c, in which    *)
(* GLS finds the lock that belongs to an address.  Readers take no lock;   *)
(* a writer locks one bucket; a resize locks every bucket of the old table *)
(* for good, copies it, publishes the new table in h->ht and only then     *)
(* links it from the old one, for the writers that wait on a locked bucket.*)
(*                                                                         *)
(* GLS never removes an address, so the used slots of a bucket and of the  *)
(* buckets chained to it are a set that grows: the chain has no other      *)
(* order than that.  A read of the chain is one step: a slot that it has   *)
(* passed does not change, and a key that it misses was not there when it  *)
(* passed.                                                                 *)
(***************************************************************************)
EXTENDS Integers, FiniteSets

CONSTANTS
  Threads,      \* the threads
  Keys,         \* addresses, as the hash function sees them: key >> 2
  Null,         \* no key, no lock, no table
  EntriesPerBucket,
  InitBuckets,  \* buckets of the first table
  GrowBy,       \* factors by which ht_status may decide to grow
  MaxTables     \* bound: tables allocated

ASSUME ClhtAssumption ==
  /\ Keys \subseteq Nat /\ Null \notin Nat
  /\ {EntriesPerBucket, InitBuckets, MaxTables} \subseteq Nat \ {0}
  /\ GrowBy \subseteq Nat \ {0, 1}

Tables == 1 .. MaxTables

VARIABLES
  ht,           \* h->ht, the table in use
  resize_lock,  \* h->resize_lock
  tables,       \* tables allocated so far
  num_buckets,  \* num_buckets[v]: of table v
  slots,        \* slots[v][b]: the used slots of bucket b and its chain
  bucket_lock,  \* bucket_lock[v][b]
  table_new,    \* table_new[v]: the table that replaces v
  num_expands,  \* num_expands[v]: buckets chained in table v
  locks,        \* lock objects allocated so far
  pc, op, key,  \* where each thread is, in which call, with which argument
  hashtable,    \* its local hashtable, or ht_old
  bucket,       \* its local bucket: a table and an index
  new_lock,     \* the lock it has made
  resize,       \* its flag: it has to resize
  ht_new,       \* the table it is filling
  got           \* history: got[k], the locks that calls returned for k

content == <<num_buckets, slots, num_expands, locks>>
shared == <<ht, resize_lock, tables, bucket_lock, table_new, content>>
local == <<op, key, hashtable, bucket, new_lock, resize, ht_new>>
vars == <<shared, pc, local, got>>

(* clht_lp_hash: the number of buckets is a power of two.                  *)
Hash(v, k) == k % num_buckets[v]
Threshold(v) == num_buckets[v]

Buckets(v) == 0 .. num_buckets[v] - 1

(* bucket_exists                                                           *)
Slot(k, l) == [key |-> k, lock |-> l]
Find(v, k) == {s \in slots[v][Hash(v, k)] : s.key = k}
LockOf(v, k) == (CHOOSE s \in Find(v, k) : TRUE).lock

(* How many buckets are chained to one that has these slots.               *)
Chained(S) == IF S = {} THEN 0 ELSE (Cardinality(S) - 1) \div EntriesPerBucket
Full(S) == S # {} /\ Cardinality(S) % EntriesPerBucket = 0

(* clht_lp_hashtable_create                                                *)
EmptyTable(n) == [b \in 0 .. n - 1 |-> {}]
FreeTable(n) == [b \in 0 .. n - 1 |-> "FREE"]

Init ==
  /\ ht = 1 /\ tables = 1 /\ resize_lock = 0 /\ locks = 0
  /\ num_buckets = [v \in Tables |-> IF v = 1 THEN InitBuckets ELSE 0]
  /\ slots = [v \in Tables |-> EmptyTable(num_buckets[v])]
  /\ bucket_lock = [v \in Tables |-> FreeTable(num_buckets[v])]
  /\ table_new = [v \in Tables |-> Null]
  /\ num_expands = [v \in Tables |-> 0]
  /\ pc = [t \in Threads |-> "idle"]
  /\ op = [t \in Threads |-> Null]
  /\ key = [t \in Threads |-> Null]
  /\ hashtable = [t \in Threads |-> Null]
  /\ bucket = [t \in Threads |-> Null]
  /\ new_lock = [t \in Threads |-> Null]
  /\ resize = [t \in Threads |-> FALSE]
  /\ ht_new = [t \in Threads |-> Null]
  /\ got = [k \in Keys |-> {}]

Goto(t, label) == pc' = [pc EXCEPT ![t] = label]

(* The call returns lock l; clht_lp_put_init does not tell which.          *)
Return(t, l) ==
  /\ Goto(t, "idle")
  /\ got' = [got EXCEPT ![key[t]] = IF op[t] = "put_init" THEN @ ELSE @ \cup {l}]
  /\ op' = [op EXCEPT ![t] = Null]
  /\ key' = [key EXCEPT ![t] = Null]
  /\ hashtable' = [hashtable EXCEPT ![t] = Null]
  /\ bucket' = [bucket EXCEPT ![t] = Null]
  /\ new_lock' = [new_lock EXCEPT ![t] = Null]
  /\ resize' = [resize EXCEPT ![t] = FALSE]
  /\ ht_new' = [ht_new EXCEPT ![t] = Null]

LockBucket(b, state) == bucket_lock' = [bucket_lock EXCEPT ![b[1]][b[2]] = state]

----------------------------------------------------------------------------
(* The calls.  clht_lp_put_type reads h->ht and looks without a lock;      *)
(* clht_lp_put_init goes straight for the lock of the bucket; clht_lp_get  *)
(* is for an address that is known to be in the table.                     *)

Call(t) ==
  /\ pc[t] = "idle"
  /\ \E k \in Keys :
       /\ key' = [key EXCEPT ![t] = k]
       /\ hashtable' = [hashtable EXCEPT ![t] = ht]
       /\ bucket' = [bucket EXCEPT ![t] = <<ht, Hash(ht, k)>>]
       /\ \/ op' = [op EXCEPT ![t] = "put_type"] /\ Goto(t, "look")
          \/ op' = [op EXCEPT ![t] = "put_init"] /\ Goto(t, "acquire")
          \/ op' = [op EXCEPT ![t] = "get"] /\ got[k] # {} /\ Goto(t, "look")
  /\ UNCHANGED <<shared, new_lock, resize, ht_new, got>>

Look(t) ==
  LET v == hashtable[t]  k == key[t] IN
  /\ pc[t] = "look"
  /\ \/ Find(v, k) # {} /\ Return(t, LockOf(v, k))
     \/ Find(v, k) = {} /\ op[t] = "get" /\ Return(t, Null)
     \/ /\ Find(v, k) = {} /\ op[t] = "put_type"
        /\ Goto(t, "enter")
        /\ UNCHANGED <<local, got>>
  /\ UNCHANGED shared

(* clht_lp_put_impl reads h->ht again, and keeps the bucket it was given.  *)
EnterImpl(t) ==
  /\ pc[t] = "enter"
  /\ hashtable' = [hashtable EXCEPT ![t] = ht]
  /\ Goto(t, "acquire")
  /\ UNCHANGED <<shared, op, key, bucket, new_lock, resize, ht_new, got>>

(* Broken: a bucket that is locked for good is taken like a free one.      *)
AcquireBucketAny(t) ==
  LET b == bucket[t] IN
  /\ pc[t] = "acquire"
  /\ bucket_lock[b[1]][b[2]] # "UPDATE"
  /\ LockBucket(b, "UPDATE")
  /\ Goto(t, "scan")
  /\ UNCHANGED <<ht, resize_lock, tables, table_new, content, local, got>>

(* lock_acq_chk_resize                                                     *)
AcquireBucket(t) ==
  LET b == bucket[t] IN
  /\ pc[t] = "acquire"
  /\ \/ /\ bucket_lock[b[1]][b[2]] = "FREE"
        /\ LockBucket(b, "UPDATE")
        /\ Goto(t, "scan")
     \/ /\ bucket_lock[b[1]][b[2]] = "RESIZE"
        /\ Goto(t, "wait")
        /\ UNCHANGED bucket_lock
  /\ UNCHANGED <<ht, resize_lock, tables, table_new, content, local, got>>

(* The writer waits for the table that replaces the one in its hashtable,  *)
(* then starts over from h->ht.                                            *)
AwaitNew(t) ==
  /\ pc[t] = "wait"
  /\ table_new[hashtable[t]] # Null
  /\ Goto(t, "reload")
  /\ UNCHANGED <<shared, local, got>>

Reload(t) ==
  /\ pc[t] = "reload"
  /\ hashtable' = [hashtable EXCEPT ![t] = ht]
  /\ bucket' = [bucket EXCEPT ![t] = <<ht, Hash(ht, key[t])>>]
  /\ Goto(t, "acquire")
  /\ UNCHANGED <<shared, op, key, new_lock, resize, ht_new, got>>

----------------------------------------------------------------------------
(* With the bucket locked.                                                 *)

ReleaseBucket(t) == LockBucket(bucket[t], "FREE")

(* Another thread may have put the address while this one was waiting.     *)
Present(v, k) == Find(v, k) # {}

(* Broken: every writer past the threshold resizes.                        *)
PastThreshold(n, v) == n >= Threshold(v)
(* Exactly one writer resizes.                                             *)
AtThreshold(n, v) == n = Threshold(v)

Scan(t) ==
  LET v == bucket[t][1]  b == bucket[t][2]  k == key[t] IN
  /\ pc[t] = "scan"
  /\ \/ /\ Present(v, k)
        /\ ReleaseBucket(t)
        /\ Return(t, LockOf(v, k))
        /\ UNCHANGED content
     \/ /\ ~Present(v, k)
        /\ locks' = locks + 1
        /\ new_lock' = [new_lock EXCEPT ![t] = locks']
        /\ \/ /\ ~Full(slots[v][b])
              /\ slots' = [slots EXCEPT ![v][b] = @ \cup {Slot(Null, locks')}]
              /\ Goto(t, "write_key")
              /\ UNCHANGED <<num_expands, resize>>
           \/ /\ Full(slots[v][b])
              /\ num_expands' = [num_expands EXCEPT ![hashtable[t]] = @ + 1]
              /\ resize' = [resize EXCEPT ![t] =
                   AtThreshold(num_expands'[hashtable[t]], hashtable[t])]
              /\ Goto(t, "chain")
              /\ UNCHANGED slots
        /\ UNCHANGED <<num_buckets, bucket_lock, op, key, hashtable, bucket, ht_new, got>>
  /\ UNCHANGED <<ht, resize_lock, tables, table_new>>

(* The key is stored after the lock, so that readers find both.            *)
WriteKey(t) ==
  LET v == bucket[t][1]  b == bucket[t][2] IN
  /\ pc[t] = "write_key"
  /\ slots' = [slots EXCEPT ![v][b] =
       (@ \ {Slot(Null, new_lock[t])}) \cup {Slot(key[t], new_lock[t])}]
  /\ Goto(t, "release")
  /\ UNCHANGED <<ht, resize_lock, tables, bucket_lock, table_new, num_buckets,
                 num_expands, locks, local, got>>

(* A bucket with the key and the lock already in it is chained.            *)
ChainBucket(t) ==
  LET v == bucket[t][1]  b == bucket[t][2] IN
  /\ pc[t] = "chain"
  /\ slots' = [slots EXCEPT ![v][b] = @ \cup {Slot(key[t], new_lock[t])}]
  /\ Goto(t, "release")
  /\ UNCHANGED <<ht, resize_lock, tables, bucket_lock, table_new, num_buckets,
                 num_expands, locks, local, got>>

Release(t) ==
  /\ pc[t] = "release"
  /\ ReleaseBucket(t)
  /\ \/ ~resize[t] /\ Return(t, new_lock[t])
     \/ resize[t] /\ Goto(t, "resize_read") /\ UNCHANGED <<local, got>>
  /\ UNCHANGED <<ht, resize_lock, tables, table_new, content>>

----------------------------------------------------------------------------
(* ht_status and ht_resize_pes, in the put that reached the threshold.     *)

ResizeRead(t) ==
  /\ pc[t] = "resize_read"
  /\ hashtable' = [hashtable EXCEPT ![t] = ht]
  /\ bucket' = [bucket EXCEPT ![t] = <<ht, 0>>]
  /\ Goto(t, "resize_try")
  /\ UNCHANGED <<shared, op, key, new_lock, resize, ht_new, got>>

(* If another resize is going on, this one is given up.                    *)
ResizeTry(t) ==
  /\ pc[t] = "resize_try"
  /\ \/ /\ resize_lock = 1
        /\ Return(t, new_lock[t])
        /\ UNCHANGED shared
     \/ /\ resize_lock = 0 /\ tables < MaxTables
        /\ resize_lock' = 1
        /\ tables' = tables + 1
        /\ \E by \in GrowBy :
             LET n == by * num_buckets[hashtable[t]] IN
             /\ num_buckets' = [num_buckets EXCEPT ![tables'] = n]
             /\ slots' = [slots EXCEPT ![tables'] = EmptyTable(n)]
             /\ bucket_lock' = [bucket_lock EXCEPT ![tables'] = FreeTable(n)]
        /\ ht_new' = [ht_new EXCEPT ![t] = tables']
        /\ Goto(t, "copy")
        /\ UNCHANGED <<ht, table_new, num_expands, locks, op, key, hashtable, bucket,
                       new_lock, resize, got>>

(* Broken: a bucket that has been copied can be locked again.              *)
CopiedFree == "FREE"
Copied == "RESIZE"

(* Broken: one bucket too many.                                            *)
MoreBucketsPastEnd(v, b) == b < num_buckets[v]
MoreBuckets(v, b) == b + 1 < num_buckets[v]

(* bucket_cpy: the bucket is locked for good and its slots put into the    *)
(* new table; one that is locked for good already is passed over.          *)
CopyBucket(t) ==
  LET v == bucket[t][1]  b == bucket[t][2]  w == ht_new[t] IN
  /\ pc[t] = "copy"
  /\ \/ /\ bucket_lock[v][b] = "FREE"
        /\ LockBucket(bucket[t], Copied)
        /\ slots' = [slots EXCEPT ![w] = [c \in Buckets(w) |->
             @[c] \cup {s \in slots[v][b] : s.key # Null /\ Hash(w, s.key) = c}]]
        /\ num_expands' = [num_expands EXCEPT ![w] =
             Cardinality({p \in Buckets(w) \X (1 .. locks) : p[2] <= Chained(slots'[w][p[1]])})]
     \/ /\ bucket_lock[v][b] = "RESIZE"
        /\ UNCHANGED <<bucket_lock, slots, num_expands>>
  /\ IF MoreBuckets(v, b)
     THEN bucket' = [bucket EXCEPT ![t] = <<v, b + 1>>] /\ UNCHANGED pc
     ELSE Goto(t, "publish") /\ UNCHANGED bucket
  /\ UNCHANGED <<ht, resize_lock, tables, table_new, num_buckets, locks,
                 op, key, hashtable, new_lock, resize, ht_new, got>>

Publish(t) ==
  /\ pc[t] = "publish"
  /\ ht' = ht_new[t]
  /\ resize' = [resize EXCEPT ![t] = num_expands[ht_new[t]] >= Threshold(ht_new[t])]
  /\ Goto(t, "link")
  /\ UNCHANGED <<resize_lock, tables, bucket_lock, table_new, content,
                 op, key, hashtable, bucket, new_lock, ht_new, got>>

(* Broken: the old table does not point to its successor.                  *)
LinkNothing(t) ==
  /\ pc[t] = "link"
  /\ Goto(t, "resize_unlock")
  /\ UNCHANGED <<shared, local, got>>

LinkNew(t) ==
  /\ pc[t] = "link"
  /\ table_new' = [table_new EXCEPT ![hashtable[t]] = ht_new[t]]
  /\ Goto(t, "resize_unlock")
  /\ UNCHANGED <<ht, resize_lock, tables, bucket_lock, content, local, got>>

ResizeUnlock(t) ==
  /\ pc[t] = "resize_unlock"
  /\ resize_lock' = 0
  /\ \/ resize[t] /\ Goto(t, "resize_read") /\ UNCHANGED <<local, got>>
     \/ ~resize[t] /\ Return(t, new_lock[t])
  /\ UNCHANGED <<ht, tables, bucket_lock, table_new, content>>

----------------------------------------------------------------------------
Step(t) ==
  \/ Look(t) \/ EnterImpl(t) \/ AcquireBucket(t) \/ AwaitNew(t) \/ Reload(t)
  \/ Scan(t) \/ WriteKey(t) \/ ChainBucket(t) \/ Release(t)
  \/ ResizeRead(t) \/ ResizeTry(t) \/ CopyBucket(t)
  \/ Publish(t) \/ LinkNew(t) \/ ResizeUnlock(t)

Next == \E t \in Threads : Call(t) \/ Step(t)

Spec == Init /\ [][Next]_vars

(* A thread in a call keeps running; it need not make another call.        *)
FairSpec == Spec /\ \A t \in Threads : WF_vars(Step(t))

----------------------------------------------------------------------------
(* Properties.                                                             *)

Labels == {"idle", "look", "enter", "acquire", "wait", "reload", "scan", "write_key",
           "chain", "release", "resize_read", "resize_try", "copy", "publish",
           "link", "resize_unlock"}

TablesOK ==
  /\ tables \in Tables /\ ht \in 1 .. tables /\ resize_lock \in {0, 1} /\ locks \in Nat
  /\ num_buckets \in [Tables -> Nat] /\ \A v \in 1 .. tables : num_buckets[v] > 0
  /\ num_expands \in [Tables -> Nat]
  /\ table_new \in [Tables -> (1 .. tables) \cup {Null}]
  /\ DOMAIN slots = Tables /\ DOMAIN bucket_lock = Tables
  /\ \A v \in Tables :
       /\ slots[v] \in [Buckets(v) -> SUBSET [key : Keys \cup {Null}, lock : 1 .. locks]]
       /\ bucket_lock[v] \in [Buckets(v) -> {"FREE", "UPDATE", "RESIZE"}]

ThreadsOK ==
  /\ pc \in [Threads -> Labels]
  /\ op \in [Threads -> {"put_type", "put_init", "get", Null}]
  /\ key \in [Threads -> Keys \cup {Null}]
  /\ hashtable \in [Threads -> (1 .. tables) \cup {Null}]
  /\ ht_new \in [Threads -> (1 .. tables) \cup {Null}]
  /\ new_lock \in [Threads -> (1 .. locks) \cup {Null}]
  /\ resize \in [Threads -> BOOLEAN]
  /\ bucket \in [Threads -> (Tables \X Nat) \cup {Null}]
  /\ \A t \in Threads :
       pc[t] # "idle" => bucket[t] \in Tables \X Nat /\ bucket[t][2] \in Buckets(bucket[t][1])
  /\ got \in [Keys -> SUBSET ((1 .. locks) \cup {Null})]

(* Every table and bucket that is pointed to exists, and its slots hold    *)
(* locks that have been made.                                              *)
TypeOK == TablesOK /\ ThreadsOK

(* Whatever tables a thread reads while they are replaced, the calls for   *)
(* one address all return one lock, and never none: GLS has no other proof *)
(* that two threads that lock an address exclude each other.               *)
OneLockPerKey == \A k \in Keys : Cardinality(got[k]) <= 1 /\ Null \notin got[k]

(* The table that is copied is the one in use, although ht_resize_pes      *)
(* reads it before it has the resize lock: to copy one that is replaced    *)
(* already, whose buckets are all locked for good, would publish an empty  *)
(* table.                                                                  *)
ResizesTheTableInUse ==
  \A t \in Threads : pc[t] \in {"copy", "publish"} => hashtable[t] = ht

(* No address that can be found, and no lock that is known for it, is lost *)
(* or replaced, by a resize or by a writer.                                *)
KeysStay ==
  [][\A k \in Keys :
       Find(ht, k) # {} => Find(ht, k)' # {} /\ LockOf(ht, k)' = LockOf(ht, k)]_vars

(* A thread that finds a bucket locked by a resize waits for table_new.    *)
WaitEnds(o) ==
  \A t \in Threads : (pc[t] = "wait" /\ op[t] = o) ~> pc[t] # "wait"

(* clht_lp_put_init waits for the successor of the table whose bucket it   *)
(* tried to lock, and the resize that locked the bucket links it.          *)
InitWaitEnds == WaitEnds("put_init")

(* clht_lp_put_type, on which every gls_lock starts, hands the bucket of   *)
(* one table to clht_lp_put_impl, which may wait for the successor of      *)
(* another.                                                                *)
PutWaitEnds == WaitEnds("put_type")
============================================================================
