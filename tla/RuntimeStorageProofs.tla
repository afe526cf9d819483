------------------------ MODULE RuntimeStorageProofs ------------------------
(***************************************************************************)
(* Theorems about the storage of a server, whichever adapter is open: for  *)
(* any keys, contents, parts, page size and concurrent calls, and for any  *)
(* number of faults, both adapters implement the write-once store of       *)
(* ObjectStore, reads are whole and listings are complete.                 *)
(***************************************************************************)
EXTENDS RuntimeStorage, FiniteSetTheorems, WellFoundedInduction, TLAPS

----------------------------------------------------------------------------
(* The filesystem adapter.                                                 *)

LEMMA IdleOK == CallOK(Idle) /\ Idle.step = "idle" /\ Idle.key = None
  BY FilesystemAssumption DEF CallOK, Calls, Steps, Idle, NoFiles, Parts

(* A thread's locals are replaced by well-typed ones.                      *)
LEMMA Replaced ==
  ASSUME CallTypeOK, NEW t \in Threads, NEW c, CallOK(c), call' = [call EXCEPT ![t] = c]
  PROVE  /\ CallTypeOK'
         /\ call'[t] = c
         /\ \A s \in Threads \ {t} : call'[s] = call[s]
  BY DEF CallTypeOK

LEMMA Answered ==
  ASSUME CallTypeOK, NEW t \in Threads, Answer(t)
  PROVE  /\ CallTypeOK'
         /\ call'[t] = Idle
         /\ \A s \in Threads \ {t} : call'[s] = call[s]
  BY Replaced, IdleOK DEF Answer

LEMMA Moved ==
  ASSUME CallTypeOK, NEW t \in Threads, NEW step \in Steps, GoTo(t, step),
         step \notin {"idle", "part"} => Key(t) \in Keys,
         step \in {"persist", "metadata", "undo", "part", "served"} => call[t].body \in Contents,
         step \in {"stat", "open", "served"} => call[t].meta \in Contents,
         step \in {"part", "hash", "openPart", "rmdir"} => call[t].id \in Ids
  PROVE  /\ CallTypeOK'
         /\ call'[t].step = step
         /\ call'[t].key = call[t].key
         /\ call'[t].body = call[t].body
         /\ call'[t].meta = call[t].meta
         /\ \A s \in Threads \ {t} : call'[s] = call[s]
<1> DEFINE c == [call[t] EXCEPT !.step = step]
<1>1. call[t] \in Calls
  BY DEF CallTypeOK, CallOK
<1>2. CallOK(c) /\ c.step = step /\ c.key = call[t].key /\ c.body = call[t].body
        /\ c.meta = call[t].meta
  BY <1>1 DEF CallOK, Calls, Key
<1>3. call' = [call EXCEPT ![t] = c]
  BY DEF GoTo
<1> HIDE DEF c
<1> QED BY <1>2, <1>3, Replaced

LEMMA AssembledIsContent == ASSUME NEW read PROVE Assembled(read) \in Contents
  BY FilesystemAssumption DEF Assembled

(* The steps of a running call keep every type.                            *)
LEMMA StepType ==
  ASSUME TypeOK, NEW t \in Threads, Step(t)
  PROVE  TypeOK'
<1> USE DEF TypeOK, FilesTypeOK
<1>0. CallOK(call[t]) /\ call[t] \in Calls
  BY DEF CallTypeOK, CallOK
<1>1. CASE PersistObject(t)
  <2>1. Key(t) \in Keys /\ call[t].body \in Contents
    BY <1>0, <1>1 DEF PersistObject, At, CallOK, Key
  <2>2. CallTypeOK'
    BY <1>1, <2>1, Moved, Answered DEF PersistObject, Steps
  <2> QED BY <1>1, <2>1, <2>2 DEF PersistObject
<1>2. CASE WriteMetadata(t)
  <2>1. Key(t) \in Keys /\ call[t].body \in Contents
    BY <1>0, <1>2 DEF WriteMetadata, At, CallOK, Key
  <2>2. call[t].id \in Ids \cup {None}
    BY <1>0 DEF Calls
  <2>3. CallTypeOK'
    BY <1>2, <2>1, <2>2, Moved, Answered DEF WriteMetadata, Steps
  <2> QED BY <1>2, <2>1, <2>3 DEF WriteMetadata
<1>3. CASE WriteMetadataFails(t)
  <2>1. Key(t) \in Keys /\ call[t].body \in Contents
    BY <1>0, <1>3 DEF WriteMetadataFails, At, CallOK, Key
  <2>2. CallTypeOK'
    BY <1>3, <2>1, Moved DEF WriteMetadataFails, Steps
  <2> QED BY <1>3, <2>2 DEF WriteMetadataFails, files
<1>4. CASE UndoObject(t)
  BY <1>0, <1>4, Answered DEF UndoObject, At, CallOK, Key
<1>5. CASE RemoveMetadata(t)
  BY <1>0, <1>5, Answered DEF RemoveMetadata, At, CallOK, Key
<1>6. CASE ReadMetadata(t)
  <2>1. Key(t) \in Keys
    BY <1>0, <1>6 DEF ReadMetadata, At, CallOK, Key
  <2>2. CASE metaFile[Key(t)] = None
    BY <1>6, <2>2, Answered DEF ReadMetadata, files
  <2>3. CASE metaFile[Key(t)] # None
    <3> DEFINE c == [call[t] EXCEPT !.step = "stat", !.meta = metaFile[Key(t)]]
    <3>1. CallOK(c)
      BY <1>0, <2>1, <2>3 DEF CallOK, Calls, Steps, Key
    <3>2. call' = [call EXCEPT ![t] = c]
      BY <1>6, <2>3 DEF ReadMetadata
    <3> HIDE DEF c
    <3> QED BY <1>6, <3>1, <3>2, Replaced DEF ReadMetadata, files
  <2> QED BY <2>2, <2>3
<1>7. CASE Stat(t)
  <2>1. Key(t) \in Keys /\ call[t].meta \in Contents
    BY <1>0, <1>7 DEF Stat, At, CallOK, Key
  <2>2. CallTypeOK'
    BY <1>7, <2>1, Moved, Answered DEF Stat, Steps
  <2> QED BY <1>7, <2>2 DEF Stat, files
<1>8. CASE Open(t)
  <2>1. Key(t) \in Keys /\ call[t].meta \in Contents
    BY <1>0, <1>8 DEF Open, At, CallOK, Key
  <2>2. CASE objectFile[Key(t)] = None
    BY <1>8, <2>2, Answered DEF Open, files
  <2>3. CASE objectFile[Key(t)] # None
    <3> DEFINE c == [call[t] EXCEPT !.step = "served", !.body = objectFile[Key(t)]]
    <3>1. CallOK(c)
      BY <1>0, <2>1, <2>3 DEF CallOK, Calls, Steps, Key
    <3>2. call' = [call EXCEPT ![t] = c]
      BY <1>8, <2>3 DEF Open
    <3> HIDE DEF c
    <3> QED BY <1>8, <3>1, <3>2, Replaced DEF Open, files
  <2> QED BY <2>2, <2>3
<1>9. CASE Served(t)
  BY <1>9, Answered DEF Served, files
<1>10. CASE PersistPart(t)
  <2>1. call[t].id \in Ids /\ call[t].num \in Parts /\ call[t].body \in Contents
    BY <1>0, <1>10 DEF PersistPart, At, CallOK, Calls
  <2>2. partFile' \in [Ids -> [Parts -> Contents \cup {None}]]
    BY <1>10, <2>1 DEF PersistPart
  <2> QED BY <1>10, <2>2, Answered DEF PersistPart
<1>11. CASE HashPart(t)
  <2>1. Key(t) \in Keys /\ call[t].id \in Ids
    BY <1>0, <1>11 DEF HashPart, At, CallOK, Key
  <2>2. CallTypeOK'
    BY <1>11, <2>1, Moved, Answered DEF HashPart, Steps
  <2> QED BY <1>11, <2>2 DEF HashPart, files
<1>12. CASE OpenPart(t)
  <2> DEFINE m == call[t].id
             n == call[t].num
             read == [call[t].read EXCEPT ![n] = partFile[m][n]]
  <2>1. /\ Key(t) \in Keys
        /\ m \in Ids
        /\ n \in Parts
        /\ call[t].read \in [Parts -> Contents \cup {None}]
    BY <1>0, <1>12 DEF OpenPart, At, CallOK, Calls, Key
  <2>2. read \in [Parts -> Contents \cup {None}]
    BY <2>1
  <2>3. CASE uploadDir[m] = None
    BY <1>12, <2>3, Answered DEF OpenPart, files
  <2>4. CASE uploadDir[m] # None /\ n < NumParts
    <3> DEFINE c == [call[t] EXCEPT !.step = "hash", !.num = n + 1, !.read = read]
    <3> HIDE DEF read
    <3>1. n + 1 \in Parts
      BY <2>1, <2>4, FilesystemAssumption DEF Parts
    <3>2. CallOK(c)
      BY <1>0, <2>1, <2>2, <3>1 DEF CallOK, Calls, Steps, Key
    <3>3. call' = [call EXCEPT ![t] = c]
      BY <1>12, <2>4 DEF OpenPart, read
    <3> HIDE DEF c
    <3> QED BY <1>12, <3>2, <3>3, Replaced DEF OpenPart, files
  <2>5. CASE uploadDir[m] # None /\ ~(n < NumParts)
    <3> DEFINE c == [call[t] EXCEPT !.step = "persist", !.body = Assembled(read), !.read = NoFiles]
    <3> HIDE DEF read
    <3>1. CallOK(c)
      BY <1>0, <2>1, <2>2, AssembledIsContent DEF CallOK, Calls, Steps, Key, NoFiles
    <3>2. call' = [call EXCEPT ![t] = c]
      BY <1>12, <2>5 DEF OpenPart, read
    <3> HIDE DEF c
    <3> QED BY <1>12, <3>1, <3>2, Replaced DEF OpenPart, files
  <2> QED BY <2>3, <2>4, <2>5
<1>13. CASE RemoveDirectory(t)
  BY <1>0, <1>13, Answered DEF RemoveDirectory, At, CallOK
<1> QED BY <1>1, <1>2, <1>3, <1>4, <1>5, <1>6, <1>7, <1>8, <1>9, <1>10, <1>11, <1>12, <1>13 DEF Step

(* So does every call that is made of the adapter.                         *)
LEMMA StartType ==
  ASSUME TypeOK, NEW t \in Threads, Start(t)
  PROVE  TypeOK'
<1> USE DEF TypeOK, FilesTypeOK
<1>1. CASE \E k \in Keys, c \in Contents, e \in Contents \cup {None} : Put(t, k, c, e)
  <2>1. PICK k \in Keys, c \in Contents, e \in Contents \cup {None} : Put(t, k, c, e)
    BY <1>1
  <2>2. CallOK([Idle EXCEPT !.step = "persist", !.key = k, !.body = c])
    BY IdleOK DEF CallOK, Calls, Steps, Idle
  <2> QED BY <2>1, <2>2, Replaced DEF Put, files
<1>2. CASE \E k \in Keys : Delete(t, k) \/ Read(t, k)
  <2>1. PICK k \in Keys : Delete(t, k) \/ Read(t, k)
    BY <1>2
  <2>2. CallOK([Idle EXCEPT !.step = "unlinkMeta", !.key = k])
        /\ CallOK([Idle EXCEPT !.step = "readMeta", !.key = k])
    BY IdleOK DEF CallOK, Calls, Steps, Idle
  <2>3. CASE Read(t, k)
    BY <2>2, <2>3, Replaced DEF Read, files
  <2>4. CASE Delete(t, k) /\ objectFile[k] # None
    BY <2>2, <2>4, Replaced DEF Delete
  <2>5. CASE Delete(t, k) /\ objectFile[k] = None
    <3>1. CallTypeOK'
      BY <2>5 DEF Delete, CallTypeOK
    <3> QED BY <2>5, <3>1 DEF Delete
  <2> QED BY <2>1, <2>3, <2>4, <2>5
<1>3. CASE \E m \in Ids, n \in Parts, c \in Contents : StorePart(t, m, n, c)
  <2>1. PICK m \in Ids, n \in Parts, c \in Contents : StorePart(t, m, n, c)
    BY <1>3
  <2>2. CallOK([Idle EXCEPT !.step = "part", !.id = m, !.num = n, !.body = c])
    BY IdleOK DEF CallOK, Calls, Steps, Idle
  <2> QED BY <2>1, <2>2, Replaced DEF StorePart, files
<1>4. CASE \E m \in Ids, plan \in [Parts -> Contents] : FinishMultipart(t, m, plan)
  <2>1. PICK m \in Ids, plan \in [Parts -> Contents] : FinishMultipart(t, m, plan)
    BY <1>4
  <2>2. uploadDir[m] \in Keys /\ plan \in [Parts -> Contents \cup {None}]
    BY <2>1 DEF FinishMultipart
  <2>3. CallOK([Idle EXCEPT !.step = "hash", !.key = uploadDir[m], !.id = m, !.plan = plan])
    BY <2>2, IdleOK DEF CallOK, Calls, Steps, Idle
  <2> QED BY <2>1, <2>3, Replaced DEF FinishMultipart, files
<1> QED BY <1>1, <1>2, <1>3, <1>4 DEF Start

LEMMA NextType == TypeOK /\ [Next]_vars => TypeOK'
<1> SUFFICES ASSUME TypeOK, [Next]_vars PROVE TypeOK'
  OBVIOUS
<1>1. CASE \E t \in Threads : Step(t) \/ Start(t)
  BY <1>1, StepType, StartType
<1>2. CASE \E k \in Keys, m \in Ids : StartMultipart(k, m)
  BY <1>2 DEF StartMultipart, TypeOK, FilesTypeOK, CallTypeOK
<1>3. CASE \E m \in Ids : CancelMultipart(m)
  BY <1>3 DEF CancelMultipart, TypeOK, FilesTypeOK, CallTypeOK
<1>4. CASE Crash
  <2>1. CallTypeOK'
    BY <1>4, IdleOK DEF Crash, CallTypeOK
  <2> QED BY <1>4, <2>1 DEF Crash, TypeOK, FilesTypeOK
<1>5. CASE UNCHANGED vars
  BY <1>5 DEF vars, files, TypeOK, FilesTypeOK, CallTypeOK
<1> QED BY <1>1, <1>2, <1>3, <1>4, <1>5 DEF Next

LEMMA InitType == Init => TypeOK
  BY IdleOK DEF Init, TypeOK, FilesTypeOK, CallTypeOK, NoFiles

(* The files and locals of the adapter keep their types.                   *)
THEOREM TypeCorrect == Spec => []TypeOK
  BY InitType, NextType, PTL DEF Spec

----------------------------------------------------------------------------
(* A key's invariant survives a step that leaves its files alone and moves *)
(* one thread to a step that holds nothing of it.                          *)
Holding == {"metadata", "undo", "unlinkMeta", "stat", "open", "served"}

LEMMA Quiet ==
  ASSUME NEW k \in Keys, KeyInv(k), NEW t \in Threads,
         \A s \in Threads \ {t} : call'[s] = call[s],
         call'[t].key = k => call'[t].step \notin Holding,
         objectFile'[k] = objectFile[k], metaFile'[k] = metaFile[k], acked'[k] = acked[k]
  PROVE  KeyInv(k)'
  BY DEF KeyInv, Between, At, Key, Holding

LEMMA IdleQuiet == Idle.step \notin Holding
  BY DEF Idle, Holding

(* The steps of a running call keep the invariant of a key that nobody     *)
(* asked to delete.                                                        *)
LEMMA StepKeyInv ==
  ASSUME TypeOK, NEW t \in Threads, Step(t), NEW k \in Keys, KeyInv(k)
  PROVE  KeyInv(k)'
<1> USE DEF TypeOK, FilesTypeOK
<1>0. CallOK(call[t]) /\ call[t] \in Calls
  BY DEF CallTypeOK, CallOK
<1>1. CASE PersistObject(t)
  <2>1. Key(t) \in Keys /\ call[t].body \in Contents /\ call[t].step = "persist"
    BY <1>0, <1>1 DEF PersistObject, At, CallOK, Key
  <2>2. CASE objectFile[Key(t)] # None
    BY <1>1, <2>2, Answered, Quiet, IdleQuiet DEF PersistObject
  <2>3. CASE objectFile[Key(t)] = None
    <3>1. /\ call'[t].step = "metadata"
          /\ call'[t].key = Key(t)
          /\ call'[t].body = call[t].body
          /\ \A s \in Threads \ {t} : call'[s] = call[s]
      BY <1>1, <2>1, <2>3, Moved DEF PersistObject, Steps, Key
    <3>2. CASE Key(t) # k
      BY <1>1, <2>1, <2>3, <3>1, <3>2, Quiet DEF PersistObject
    <3>3. CASE Key(t) = k
      <4>1. metaFile[k] = None /\ \A s \in Threads : ~Between(s, k)
        BY <2>1, <2>3, <3>3, FilesystemAssumption DEF KeyInv, Between, Key, CallTypeOK, CallOK
      <4>2. objectFile'[k] = call[t].body /\ metaFile' = metaFile /\ acked' = acked
        BY <1>1, <2>1, <2>3, <3>3 DEF PersistObject
      <4>3. \A s \in Threads : Between(s, k)' => s = t
        BY <3>1, <4>1 DEF Between, Key
      <4>4. \A s \in Threads \ {t} : Key(s) = k =>
               call[s].step \notin {"stat", "open", "served"}
        BY <4>1, FilesystemAssumption DEF KeyInv, CallTypeOK, CallOK, Key
      <4> QED BY <3>1, <4>1, <4>2, <4>3, <4>4 DEF KeyInv, At, Key, Between
    <3> QED BY <3>2, <3>3
  <2> QED BY <2>2, <2>3
<1>2. CASE WriteMetadata(t)
  <2>1. Key(t) \in Keys /\ call[t].body \in Contents /\ call[t].step = "metadata"
    BY <1>0, <1>2 DEF WriteMetadata, At, CallOK, Key
  <2>2. call[t].id \in Ids \cup {None}
    BY <1>0 DEF Calls
  <2>3. /\ call'[t].step \in {"idle", "rmdir", "undo"}
        /\ metaFile[Key(t)] = None => call'[t].step # "undo"
        /\ call'[t].step = "undo" => call'[t].key = Key(t) /\ call'[t].body = call[t].body
        /\ \A s \in Threads \ {t} : call'[s] = call[s]
    BY <1>2, <2>1, <2>2, Moved, Answered, IdleOK DEF WriteMetadata, Steps, Key
  <2>4. CASE Key(t) # k
    <3>1. call'[t].key # k \/ call'[t].step # "undo"
      BY <2>3, <2>4
    <3> QED BY <1>2, <2>1, <2>3, <2>4, <3>1, Quiet DEF WriteMetadata, Holding
  <2>5. CASE Key(t) = k
    <3>1. objectFile[k] = call[t].body /\ metaFile[k] = None /\ acked[k] = {}
      BY <2>1, <2>5 DEF KeyInv, Between
    <3>2. /\ metaFile'[k] = call[t].body
          /\ acked'[k] = {call[t].body}
          /\ objectFile' = objectFile
      BY <1>2, <2>1, <2>5, <3>1 DEF WriteMetadata
    <3>3. \A s \in Threads : ~Between(s, k)'
      BY <2>1, <2>3, <2>5, <3>1 DEF KeyInv, Between, Key
    <3>4. \A s \in Threads \ {t} : Key(s) = k =>
             call[s].step \notin {"stat", "open", "served"}
      BY <3>1, FilesystemAssumption DEF KeyInv, CallTypeOK, CallOK, Key
    <3> QED BY <2>1, <2>3, <3>1, <3>2, <3>3, <3>4, FilesystemAssumption DEF KeyInv, At, Key
  <2> QED BY <2>4, <2>5
<1>3. CASE WriteMetadataFails(t)
  <2>1. Key(t) \in Keys /\ call[t].body \in Contents /\ call[t].step = "metadata"
    BY <1>0, <1>3 DEF WriteMetadataFails, At, CallOK, Key
  <2>2. /\ call'[t].step = "undo"
        /\ call'[t].key = Key(t)
        /\ call'[t].body = call[t].body
        /\ \A s \in Threads \ {t} : call'[s] = call[s]
    BY <1>3, <2>1, Moved DEF WriteMetadataFails, Steps, Key
  <2> QED BY <1>3, <2>1, <2>2 DEF WriteMetadataFails, files, KeyInv, Between, At, Key
<1>4. CASE UndoObject(t)
  <2>1. Key(t) \in Keys /\ call[t].step = "undo"
    BY <1>0, <1>4 DEF UndoObject, At, CallOK, Key
  <2>2. call'[t] = Idle /\ \A s \in Threads \ {t} : call'[s] = call[s]
    BY <1>4, Answered DEF UndoObject
  <2>3. CASE Key(t) # k
    BY <1>4, <2>1, <2>2, <2>3, Quiet, IdleQuiet DEF UndoObject
  <2>4. CASE Key(t) = k
    <3>1. metaFile[k] = None /\ \A s \in Threads : Between(s, k) => s = t
      BY <2>1, <2>4 DEF KeyInv, Between
    <3>2. \A s \in Threads : ~Between(s, k)'
      BY <2>2, <3>1, IdleOK DEF Between, Key
    <3>3. \A s \in Threads \ {t} : Key(s) = k =>
             call[s].step \notin {"stat", "open", "served"}
      BY <3>1, FilesystemAssumption DEF KeyInv, CallTypeOK, CallOK, Key
    <3> QED BY <1>4, <2>2, <3>1, <3>2, <3>3, IdleOK DEF UndoObject, KeyInv, At, Key
  <2> QED BY <2>3, <2>4
<1>5. CASE RemoveMetadata(t)
  <2>1. Key(t) \in Keys /\ Key(t) # k
    BY <1>0, <1>5 DEF RemoveMetadata, At, CallOK, Key, KeyInv
  <2> QED BY <1>5, <2>1, Answered, Quiet, IdleQuiet DEF RemoveMetadata
<1>6. CASE ReadMetadata(t)
  <2>1. Key(t) \in Keys /\ call[t].step = "readMeta"
    BY <1>0, <1>6 DEF ReadMetadata, At, CallOK, Key
  <2>2. CASE metaFile[Key(t)] = None
    BY <1>6, <2>2, Answered, Quiet, IdleQuiet DEF ReadMetadata, files
  <2>3. CASE metaFile[Key(t)] # None
    <3>1. /\ call'[t].step = "stat"
          /\ call'[t].key = call[t].key
          /\ call'[t].meta = metaFile[Key(t)]
          /\ \A s \in Threads \ {t} : call'[s] = call[s]
      <4> DEFINE c == [call[t] EXCEPT !.step = "stat", !.meta = metaFile[Key(t)]]
      <4>1. c.step = "stat" /\ c.key = call[t].key /\ c.meta = metaFile[Key(t)]
        BY <1>0 DEF Calls
      <4>2. call' = [call EXCEPT ![t] = c]
        BY <1>6, <2>3 DEF ReadMetadata
      <4> HIDE DEF c
      <4> QED BY <4>1, <4>2 DEF CallTypeOK
    <3>2. objectFile' = objectFile /\ metaFile' = metaFile /\ acked' = acked
      BY <1>6 DEF ReadMetadata, files
    <3>3. CASE Key(t) # k
      BY <3>1, <3>2, <3>3, Quiet DEF Key
    <3> QED BY <2>1, <3>1, <3>2, <3>3 DEF KeyInv, Between, At, Key
  <2> QED BY <2>2, <2>3
<1>7. CASE Stat(t)
  <2>1. Key(t) \in Keys /\ call[t].meta \in Contents /\ call[t].step = "stat"
    BY <1>0, <1>7 DEF Stat, At, CallOK, Key
  <2>2. CASE Answer(t)
    BY <1>7, <2>2, Answered, Quiet, IdleQuiet DEF Stat, files
  <2>3. CASE GoTo(t, "open")
    <3>1. /\ call'[t].step = "open"
          /\ call'[t].key = call[t].key
          /\ call'[t].meta = call[t].meta
          /\ \A s \in Threads \ {t} : call'[s] = call[s]
      BY <2>1, <2>3, Moved DEF Steps
    <3> QED BY <1>7, <2>1, <3>1 DEF Stat, files, KeyInv, Between, At, Key
  <2> QED BY <1>7, <2>2, <2>3 DEF Stat
<1>8. CASE Open(t)
  <2>1. Key(t) \in Keys /\ call[t].meta \in Contents /\ call[t].step = "open"
    BY <1>0, <1>8 DEF Open, At, CallOK, Key
  <2>2. CASE objectFile[Key(t)] = None
    BY <1>8, <2>2, Answered, Quiet, IdleQuiet DEF Open, files
  <2>3. CASE objectFile[Key(t)] # None
    <3>1. /\ call'[t].step = "served"
          /\ call'[t].key = call[t].key
          /\ call'[t].meta = call[t].meta
          /\ call'[t].body = objectFile[Key(t)]
          /\ \A s \in Threads \ {t} : call'[s] = call[s]
      <4> DEFINE c == [call[t] EXCEPT !.step = "served", !.body = objectFile[Key(t)]]
      <4>1. /\ c.step = "served" /\ c.key = call[t].key
            /\ c.meta = call[t].meta /\ c.body = objectFile[Key(t)]
        BY <1>0 DEF Calls
      <4>2. call' = [call EXCEPT ![t] = c]
        BY <1>8, <2>3 DEF Open
      <4> HIDE DEF c
      <4> QED BY <4>1, <4>2 DEF CallTypeOK
    <3> QED BY <1>8, <2>1, <3>1 DEF Open, files, KeyInv, Between, At, Key
  <2> QED BY <2>2, <2>3
<1>9. CASE Served(t)
  BY <1>9, Answered, Quiet, IdleQuiet DEF Served, files
<1>10. CASE PersistPart(t)
  BY <1>10, Answered, Quiet, IdleQuiet DEF PersistPart
<1>11. CASE HashPart(t)
  <2>1. Key(t) \in Keys /\ call[t].id \in Ids
    BY <1>0, <1>11 DEF HashPart, At, CallOK, Key
  <2>2. call'[t].step \in {"openPart", "idle"} /\ \A s \in Threads \ {t} : call'[s] = call[s]
    BY <1>11, <2>1, Moved, Answered, IdleOK DEF HashPart, Steps
  <2> QED BY <1>11, <2>2, Quiet DEF HashPart, files, Holding
<1>12. CASE OpenPart(t)
  <2>1. call'[t].step \in {"idle", "hash", "persist"} /\ \A s \in Threads \ {t} : call'[s] = call[s]
    <3>1. CASE uploadDir[call[t].id] = None
      BY <1>12, <3>1, Answered, IdleOK DEF OpenPart
    <3>2. CASE uploadDir[call[t].id] # None
      <4> DEFINE m == call[t].id
                 n == call[t].num
                 read == [call[t].read EXCEPT ![n] = partFile[m][n]]
                 c == IF n < NumParts
                        THEN [call[t] EXCEPT !.step = "hash", !.num = n + 1, !.read = read]
                        ELSE [call[t] EXCEPT !.step = "persist", !.body = Assembled(read),
                                             !.read = NoFiles]
      <4>1. call' = [call EXCEPT ![t] = c]
        BY <1>12, <3>2 DEF OpenPart
      <4> HIDE DEF read
      <4>2. c.step \in {"hash", "persist"}
        BY <1>0 DEF Calls
      <4> HIDE DEF c
      <4> QED BY <4>1, <4>2 DEF CallTypeOK
    <3> QED BY <3>1, <3>2
  <2> QED BY <1>12, <2>1, Quiet DEF OpenPart, files, Holding
<1>13. CASE RemoveDirectory(t)
  BY <1>13, Answered, Quiet, IdleQuiet DEF RemoveDirectory
<1> QED BY <1>1, <1>2, <1>3, <1>4, <1>5, <1>6, <1>7, <1>8, <1>9, <1>10, <1>11, <1>12, <1>13 DEF Step
(* No other step touches a key that nobody asked to delete.                *)
LEMMA StartKeyInv ==
  ASSUME TypeOK, NEW t \in Threads, Start(t), NEW k \in Keys, ~wanted'[k], KeyInv(k)
  PROVE  KeyInv(k)' /\ ~wanted[k]
<1> USE DEF TypeOK, FilesTypeOK
<1>0. Idle \in Calls
  BY IdleOK DEF CallOK
<1>1. CASE \E q \in Keys, c \in Contents, e \in Contents \cup {None} : Put(t, q, c, e)
  <2>1. PICK q \in Keys, c \in Contents, e \in Contents \cup {None} : Put(t, q, c, e)
    BY <1>1
  <2> DEFINE new == [Idle EXCEPT !.step = "persist", !.key = q, !.body = c]
  <2>2. new.step = "persist"
    BY DEF Idle
  <2>3. call' = [call EXCEPT ![t] = new]
    BY <2>1 DEF Put
  <2> HIDE DEF new
  <2>4. call'[t].step = "persist" /\ \A s \in Threads \ {t} : call'[s] = call[s]
    BY <2>2, <2>3 DEF CallTypeOK
  <2> QED BY <2>1, <2>4, Quiet DEF Put, files, Holding
<1>2. CASE \E q \in Keys : Delete(t, q) \/ Read(t, q)
  <2>1. PICK q \in Keys : Delete(t, q) \/ Read(t, q)
    BY <1>2
  <2>2. CASE Read(t, q)
    <3> DEFINE new == [Idle EXCEPT !.step = "readMeta", !.key = q]
    <3>1. new.step = "readMeta"
      BY DEF Idle
    <3>2. call' = [call EXCEPT ![t] = new]
      BY <2>2 DEF Read
    <3> HIDE DEF new
    <3>3. call'[t].step = "readMeta" /\ \A s \in Threads \ {t} : call'[s] = call[s]
      BY <3>1, <3>2 DEF CallTypeOK
    <3> QED BY <2>2, <3>3, Quiet DEF Read, files, Holding
  <2>3. CASE Delete(t, q)
    <3>1. q # k
      BY <2>3 DEF Delete
    <3>2. CASE objectFile[q] = None
      <4>1. call' = call /\ call[t].step = "idle"
        BY <2>3, <3>2 DEF Delete, At
      <4> QED BY <2>3, <3>1, <4>1, Quiet DEF Delete, Holding
    <3>3. CASE objectFile[q] # None
      <4> DEFINE new == [Idle EXCEPT !.step = "unlinkMeta", !.key = q]
      <4>1. new.key = q
        BY DEF Idle
      <4>2. call' = [call EXCEPT ![t] = new]
        BY <2>3, <3>3 DEF Delete
      <4> HIDE DEF new
      <4>3. call'[t].key = q /\ \A s \in Threads \ {t} : call'[s] = call[s]
        BY <4>1, <4>2 DEF CallTypeOK
      <4> QED BY <2>3, <3>1, <4>3, Quiet DEF Delete
    <3> QED BY <3>2, <3>3
  <2> QED BY <2>1, <2>2, <2>3
<1>3. CASE \E m \in Ids, n \in Parts, c \in Contents : StorePart(t, m, n, c)
  <2>1. PICK m \in Ids, n \in Parts, c \in Contents : StorePart(t, m, n, c)
    BY <1>3
  <2> DEFINE new == [Idle EXCEPT !.step = "part", !.id = m, !.num = n, !.body = c]
  <2>2. new.step = "part"
    BY DEF Idle
  <2>3. call' = [call EXCEPT ![t] = new]
    BY <2>1 DEF StorePart
  <2> HIDE DEF new
  <2>4. call'[t].step = "part" /\ \A s \in Threads \ {t} : call'[s] = call[s]
    BY <2>2, <2>3 DEF CallTypeOK
  <2> QED BY <2>1, <2>4, Quiet DEF StorePart, files, Holding
<1>4. CASE \E m \in Ids, plan \in [Parts -> Contents] : FinishMultipart(t, m, plan)
  <2>1. PICK m \in Ids, plan \in [Parts -> Contents] : FinishMultipart(t, m, plan)
    BY <1>4
  <2> DEFINE new == [Idle EXCEPT !.step = "hash", !.key = uploadDir[m], !.id = m, !.plan = plan]
  <2>2. new.step = "hash"
    BY DEF Idle
  <2>3. call' = [call EXCEPT ![t] = new]
    BY <2>1 DEF FinishMultipart
  <2> HIDE DEF new
  <2>4. call'[t].step = "hash" /\ \A s \in Threads \ {t} : call'[s] = call[s]
    BY <2>2, <2>3 DEF CallTypeOK
  <2> QED BY <2>1, <2>4, Quiet DEF FinishMultipart, files, Holding
<1> QED BY <1>1, <1>2, <1>3, <1>4 DEF Start

LEMMA NextOneWriter == TypeOK /\ OneWriter /\ [Next]_vars => OneWriter'
<1> SUFFICES ASSUME TypeOK, OneWriter, [Next]_vars, NEW k \in Keys, ~wanted'[k]
             PROVE  KeyInv(k)'
  BY DEF OneWriter
<1>1. CASE \E t \in Threads : Step(t)
  <2>1. PICK t \in Threads : Step(t)
    BY <1>1
  <2>2. wanted' = wanted
    BY <2>1 DEF Step, PersistObject, WriteMetadata, WriteMetadataFails, UndoObject, RemoveMetadata,
       ReadMetadata, Stat, Open, Served, PersistPart, HashPart, OpenPart, RemoveDirectory
  <2> QED BY <2>1, <2>2, StepKeyInv DEF OneWriter
<1>2. CASE \E t \in Threads : Start(t)
  <2>1. PICK t \in Threads : Start(t)
    BY <1>2
  <2>2. ~wanted[k]
    BY <2>1 DEF TypeOK, FilesTypeOK, Start, Put, Delete, Read, StorePart, FinishMultipart
  <2> QED BY <2>1, <2>2, StartKeyInv DEF OneWriter
<1>3. CASE \E q \in Keys, m \in Ids : StartMultipart(q, m)
  BY <1>3 DEF StartMultipart, OneWriter, KeyInv, Between, At, Key
<1>4. CASE \E m \in Ids : CancelMultipart(m)
  BY <1>4 DEF CancelMultipart, OneWriter, KeyInv, Between, At, Key
<1>5. CASE Crash
  <2>1. \A t \in Threads : call'[t].step = "idle"
    BY <1>5, IdleOK DEF Crash
  <2> QED BY <1>5, <2>1 DEF Crash, OneWriter, KeyInv, Between, At, Key
<1>6. CASE UNCHANGED vars
  BY <1>6 DEF vars, files, OneWriter, KeyInv, Between, At, Key
<1> QED BY <1>1, <1>2, <1>3, <1>4, <1>5, <1>6 DEF Next

LEMMA InitOneWriter == Init => OneWriter
  BY IdleOK DEF Init, OneWriter, KeyInv, Between, At, Key

(* At most one call stands between the two files of a key that nobody      *)
(* asked to delete, and the files, the readers and the committed content   *)
(* agree.                                                                  *)
THEOREM OneWriterCorrect == Spec => []OneWriter
  BY InitType, NextType, InitOneWriter, NextOneWriter, PTL DEF Spec

(* A get of a key that nobody deletes serves the bytes its checksum        *)
(* describes.                                                              *)
THEOREM ReadsCorrect == Spec => []ReadsAreWhole
<1>1. TypeOK /\ OneWriter => ReadsAreWhole
  BY FilesystemAssumption DEF TypeOK, CallTypeOK, CallOK, OneWriter, KeyInv, ReadsAreWhole, At, Key
<1> QED BY <1>1, TypeCorrect, OneWriterCorrect, PTL

----------------------------------------------------------------------------
(* The refinement.                                                         *)

LEMMA VisibleType == ASSUME TypeOK, NEW k \in Keys PROVE Visible(k) \in Contents \cup {None}
  BY DEF TypeOK, FilesTypeOK, Visible

(* A step that leaves the files of all keys alone is a stutter.            *)
LEMMA Stutter ==
  ASSUME UNCHANGED <<objectFile, metaFile, acked, wanted>>
  PROVE  UNCHANGED Contract!vars
  BY DEF Contract!vars, Visible

(* A step on the files of one key, which somebody asked to delete.         *)
LEMMA RaceStep ==
  ASSUME TypeOK, TypeOK', NEW q \in Keys, wanted[q], UNCHANGED wanted,
         \A k \in Keys \ {q} : /\ objectFile'[k] = objectFile[k]
                               /\ metaFile'[k] = metaFile[k]
                               /\ acked'[k] = acked[k]
  PROVE  Contract!Next
<1> DEFINE old == [k \in Keys |-> Visible(k)]
           new == [k \in Keys |-> Visible(k)']
<1>1. Visible(q)' \in Contents \cup {None}
  BY DEF TypeOK, FilesTypeOK, Visible
<1>2. \A k \in Keys \ {q} : Visible(k)' = Visible(k)
  BY DEF Visible
<1>3. new = [old EXCEPT ![q] = Visible(q)']
  BY <1>2
<1>4. acked' = [acked EXCEPT ![q] = acked'[q]] /\ acked'[q] \in SUBSET Contents
  BY DEF TypeOK, FilesTypeOK
<1>5. Contract!Race(q)
  BY <1>1, <1>3, <1>4 DEF Contract!Race
<1> QED BY <1>5 DEF Contract!Next

LEMMA StepRefines ==
  ASSUME TypeOK, TypeOK', OneWriter, NEW t \in Threads, Step(t)
  PROVE  [Contract!Next]_(Contract!vars)
<1> USE DEF TypeOK, FilesTypeOK
<1>0. CallOK(call[t])
  BY DEF CallTypeOK
<1>1. CASE PersistObject(t)
  <2>1. Key(t) \in Keys /\ call[t].body \in Contents
    BY <1>0, <1>1 DEF PersistObject, At, CallOK, Key
  <2>2. CASE wanted[Key(t)]
    BY <1>1, <2>1, <2>2, RaceStep DEF PersistObject
  <2>3. CASE ~wanted[Key(t)]
    <3>1. objectFile[Key(t)] = None => metaFile[Key(t)] = None
      BY <2>1, <2>3 DEF OneWriter, KeyInv
    <3>2. \A k \in Keys : Visible(k)' = Visible(k)
      BY <1>1, <2>1, <3>1, FilesystemAssumption DEF PersistObject, Visible
    <3> QED BY <1>1, <3>2 DEF PersistObject, Contract!vars
  <2> QED BY <2>2, <2>3
<1>2. CASE WriteMetadata(t)
  <2>1. Key(t) \in Keys /\ call[t].body \in Contents /\ call[t].step = "metadata"
    BY <1>0, <1>2 DEF WriteMetadata, At, CallOK, Key
  <2>2. CASE wanted[Key(t)]
    BY <1>2, <2>1, <2>2, RaceStep DEF WriteMetadata
  <2>3. CASE ~wanted[Key(t)]
    <3>0. PICK q \in Keys, c \in Contents : q = Key(t) /\ c = call[t].body
      BY <2>1
    <3>1. objectFile[q] = c /\ metaFile[q] = None /\ acked[q] = {}
      BY <2>1, <2>3, <3>0 DEF OneWriter, KeyInv, Between
    <3>2. /\ metaFile' = [metaFile EXCEPT ![q] = c]
          /\ acked' = [acked EXCEPT ![q] = {c}]
          /\ objectFile' = objectFile /\ wanted' = wanted
      BY <1>2, <3>0, <3>1 DEF WriteMetadata
    <3>3. Visible(q) = None /\ Visible(q)' = c /\ \A k \in Keys \ {q} : Visible(k)' = Visible(k)
      BY <3>1, <3>2, FilesystemAssumption DEF Visible
    <3>4. [k \in Keys |-> Visible(k)'] = [[k \in Keys |-> Visible(k)] EXCEPT ![q] = c]
      BY <3>3
    <3>5. Contract!Commit(q, c)
      BY <2>3, <3>0, <3>1, <3>2, <3>3, <3>4 DEF Contract!Commit
    <3> QED BY <3>5 DEF Contract!Next
  <2> QED BY <2>2, <2>3
<1>3. CASE UndoObject(t)
  <2>1. Key(t) \in Keys /\ call[t].step = "undo"
    BY <1>0, <1>3 DEF UndoObject, At, CallOK, Key
  <2>2. CASE wanted[Key(t)]
    BY <1>3, <2>1, <2>2, RaceStep DEF UndoObject
  <2>3. CASE ~wanted[Key(t)]
    <3>1. metaFile[Key(t)] = None
      BY <2>1, <2>3 DEF OneWriter, KeyInv, Between
    <3>2. \A k \in Keys : Visible(k)' = Visible(k)
      BY <1>3, <2>1, <3>1, FilesystemAssumption DEF UndoObject, Visible
    <3> QED BY <1>3, <3>2 DEF UndoObject, Contract!vars
  <2> QED BY <2>2, <2>3
<1>4. CASE RemoveMetadata(t)
  <2>1. Key(t) \in Keys /\ wanted[Key(t)]
    BY <1>0, <1>4 DEF RemoveMetadata, At, CallOK, Key, OneWriter, KeyInv
  <2> QED BY <1>4, <2>1, RaceStep DEF RemoveMetadata
<1>5. CASE \/ WriteMetadataFails(t) \/ ReadMetadata(t) \/ Stat(t) \/ Open(t) \/ Served(t)
           \/ PersistPart(t) \/ HashPart(t) \/ OpenPart(t) \/ RemoveDirectory(t)
  <2>1. UNCHANGED <<objectFile, metaFile, acked, wanted>>
    BY <1>5 DEF WriteMetadataFails, ReadMetadata, Stat, Open, Served, PersistPart, HashPart,
       OpenPart, RemoveDirectory, files
  <2> QED BY <2>1, Stutter
<1> QED BY <1>1, <1>2, <1>3, <1>4, <1>5 DEF Step

LEMMA StartRefines ==
  ASSUME TypeOK, TypeOK', OneWriter, NEW t \in Threads, Start(t)
  PROVE  [Contract!Next]_(Contract!vars)
<1>1. CASE \E k \in Keys : Delete(t, k)
  <2>1. PICK q \in Keys : Delete(t, q)
    BY <1>1
  <2>2. /\ wanted' = [wanted EXCEPT ![q] = TRUE]
        /\ objectFile' = [objectFile EXCEPT ![q] = None]
        /\ metaFile' = metaFile /\ acked' = acked
    BY <2>1 DEF Delete
  <2>3. \A k \in Keys \ {q} : Visible(k)' = Visible(k)
    BY <2>2 DEF TypeOK, FilesTypeOK, Visible
  <2>4. Visible(q)' = None
    BY <2>2 DEF TypeOK, FilesTypeOK, Visible
  <2>5. [k \in Keys |-> Visible(k)'] = [[k \in Keys |-> Visible(k)] EXCEPT ![q] = None]
    BY <2>3, <2>4
  <2>6. Contract!Delete(q)
    BY <2>2, <2>5 DEF Contract!Delete
  <2> QED BY <2>6 DEF Contract!Next
<1>2. CASE ~\E k \in Keys : Delete(t, k)
  <2>1. UNCHANGED <<objectFile, metaFile, acked, wanted>>
    BY <1>2 DEF Start, Put, Read, StorePart, FinishMultipart, files
  <2> QED BY <2>1, Stutter
<1> QED BY <1>1, <1>2

LEMMA NextRefines ==
  TypeOK /\ TypeOK' /\ OneWriter /\ [Next]_vars => [Contract!Next]_(Contract!vars)
<1> SUFFICES ASSUME TypeOK, TypeOK', OneWriter, [Next]_vars
             PROVE  [Contract!Next]_(Contract!vars)
  OBVIOUS
<1>1. CASE \E t \in Threads : Step(t) \/ Start(t)
  BY <1>1, StepRefines, StartRefines
<1>2. CASE (\E k \in Keys, m \in Ids : StartMultipart(k, m)) \/ (\E m \in Ids : CancelMultipart(m))
           \/ Crash \/ UNCHANGED vars
  <2>1. UNCHANGED <<objectFile, metaFile, acked, wanted>>
    BY <1>2 DEF StartMultipart, CancelMultipart, Crash, vars, files
  <2> QED BY <2>1, Stutter
<1> QED BY <1>1, <1>2 DEF Next

LEMMA InitRefines == Init => Contract!Init
  BY DEF Init, Contract!Init, Visible

(* The filesystem adapter implements the write-once store its contract     *)
(* describes, through every race, failed write and crash.                  *)
THEOREM AdapterImplementsStore == Spec => ImplementsObjectStore
<1>1. TypeOK /\ TypeOK' /\ OneWriter /\ [Next]_vars => [Contract!Next]_(Contract!vars)
  BY NextRefines
<1> QED BY <1>1, InitRefines, TypeCorrect, OneWriterCorrect, PTL
      DEF Spec, ImplementsObjectStore, Contract!Spec

(* The inventory that reconciliation reads misses no committed object that *)
(* nobody asked to delete.                                                 *)
THEOREM InventoryCorrect == Spec => []InventoryIsComplete
<1>1. TypeOK /\ OneWriter => InventoryIsComplete
  BY DEF TypeOK, FilesTypeOK, OneWriter, KeyInv, InventoryIsComplete, Listed
<1> QED BY <1>1, TypeCorrect, OneWriterCorrect, PTL

----------------------------------------------------------------------------
(* A completion works on the directory of its key, which is there until it *)
(* is removed for good, and removes it after its object was committed.     *)
Finishing == {"hash", "openPart", "persist", "metadata", "undo", "rmdir"}

DirectoriesHold ==
  /\ \A m \in Ids : uploadDir[m] # None => m \in used
  /\ \A t \in Threads : call[t].step \in Finishing /\ call[t].id \in Ids =>
       call[t].id \in used /\ uploadDir[call[t].id] \in {None, Key(t)}
  /\ \A t \in Threads : At(t, "rmdir") => wanted[Key(t)] \/ acked[Key(t)] # {}

LEMMA StepDirectories ==
  ASSUME TypeOK, DirectoriesHold, NEW t \in Threads, Step(t)
  PROVE  DirectoriesHold'
<1>0. CallOK(call[t]) /\ call[t] \in Calls
  BY DEF TypeOK, CallTypeOK, CallOK
<1>1. /\ \A m \in Ids : uploadDir[m] # None => m \in used
      /\ \A k \in Keys : acked[k] # {} => acked'[k] # {}
      /\ UNCHANGED <<used, wanted>>
  BY <1>0 DEF DirectoriesHold, Step, PersistObject, WriteMetadata, WriteMetadataFails, UndoObject,
     RemoveMetadata, ReadMetadata, Stat, Open, Served, PersistPart, HashPart, OpenPart,
     RemoveDirectory, files, TypeOK, FilesTypeOK
<1>2. \/ uploadDir' = uploadDir
      \/ At(t, "rmdir") /\ uploadDir' = [uploadDir EXCEPT ![call[t].id] = None]
  BY DEF Step, PersistObject, WriteMetadata, WriteMetadataFails, UndoObject,
     RemoveMetadata, ReadMetadata, Stat, Open, Served, PersistPart, HashPart, OpenPart,
     RemoveDirectory, files
<1>3. \A m \in Ids : uploadDir'[m] \in {uploadDir[m], None}
  BY <1>2 DEF TypeOK, FilesTypeOK
<1>4. \A s \in Threads \ {t} : call'[s] = call[s]
  BY DEF TypeOK, CallTypeOK, Step, PersistObject, WriteMetadata, WriteMetadataFails, UndoObject,
     RemoveMetadata, ReadMetadata, Stat, Open, Served, PersistPart, HashPart, OpenPart,
     RemoveDirectory, GoTo, Answer
<1>5. /\ call'[t].step \in Finishing /\ call'[t].id \in Ids =>
           /\ call[t].step \in Finishing /\ call'[t].id = call[t].id /\ call'[t].key = call[t].key
      /\ call'[t].step = "rmdir" => acked'[call'[t].key] # {}
  <2> USE DEF TypeOK, CallTypeOK
  <2>1. CASE Answer(t)
    BY <2>1, Answered, IdleOK DEF Finishing
  <2>2. ASSUME NEW step \in Finishing \ {"rmdir"}, GoTo(t, step), call[t].step \in Finishing
        PROVE  <1>5!1 /\ <1>5!2
    BY <1>0, <2>2 DEF GoTo, Calls
  <2>3. CASE PersistObject(t)
    BY <2>1, <2>2, <2>3 DEF PersistObject, At, Finishing
  <2>4. CASE WriteMetadata(t)
    <3>1. call[t].key \in Keys /\ call[t].body \in Contents
      BY <1>0, <2>4 DEF WriteMetadata, At, CallOK
    <3>2. CASE GoTo(t, "rmdir") /\ acked' = [acked EXCEPT ![Key(t)] = @ \cup {call[t].body}]
      <4>1. acked'[call[t].key] # {}
        BY <3>1, <3>2 DEF FilesTypeOK, Key
      <4>2. /\ call'[t].step = "rmdir" /\ call'[t].id = call[t].id /\ call'[t].key = call[t].key
        BY <1>0, <3>2 DEF GoTo, Calls
      <4> QED BY <2>4, <4>1, <4>2 DEF WriteMetadata, At, Finishing
    <3> QED BY <2>1, <2>2, <2>4, <3>2 DEF WriteMetadata, At, Finishing
  <2>5. CASE WriteMetadataFails(t)
    BY <2>2, <2>5 DEF WriteMetadataFails, At, Finishing
  <2>6. CASE UndoObject(t) \/ RemoveMetadata(t) \/ Served(t) \/ PersistPart(t) \/ RemoveDirectory(t)
    BY <2>1, <2>6 DEF UndoObject, RemoveMetadata, Served, PersistPart, RemoveDirectory
  <2>7. CASE ReadMetadata(t) \/ Stat(t) \/ Open(t)
    <3> DEFINE read == [call[t] EXCEPT !.step = "stat", !.meta = metaFile[Key(t)]]
               stat == [call[t] EXCEPT !.step = "open"]
               open == [call[t] EXCEPT !.step = "served", !.body = objectFile[Key(t)]]
    <3>1. \/ Answer(t)
          \/ \E c \in {read, stat, open} : call' = [call EXCEPT ![t] = c]
      BY <2>7 DEF ReadMetadata, Stat, Open, GoTo
    <3>2. read.step = "stat" /\ stat.step = "open" /\ open.step = "served"
      BY <1>0 DEF Calls
    <3> HIDE DEF read, stat, open
    <3>3. Answer(t) \/ call'[t].step \in {"stat", "open", "served"}
      BY <3>1, <3>2
    <3> QED BY <2>1, <3>3 DEF Finishing
  <2>8. CASE HashPart(t)
    BY <2>1, <2>2, <2>8 DEF HashPart, At, Finishing
  <2>9. CASE OpenPart(t)
    <3>1. CASE ~Answer(t)
      <4> DEFINE opened == [call[t].read EXCEPT ![call[t].num] = partFile[call[t].id][call[t].num]]
                 next == [call[t] EXCEPT !.step = "hash", !.num = call[t].num + 1, !.read = opened]
                 last == [call[t] EXCEPT !.step = "persist", !.body = Assembled(opened),
                                         !.read = NoFiles]
      <4>1. \E c \in {next, last} : call' = [call EXCEPT ![t] = c]
        BY <2>9, <3>1 DEF OpenPart
      <4>2. /\ next.step = "hash" /\ next.id = call[t].id /\ next.key = call[t].key
            /\ last.step = "persist" /\ last.id = call[t].id /\ last.key = call[t].key
        BY <1>0 DEF Calls
      <4> HIDE DEF next, last
      <4>3. /\ call'[t].step \in {"hash", "persist"}
            /\ call'[t].id = call[t].id /\ call'[t].key = call[t].key
        BY <4>1, <4>2
      <4> QED BY <2>9, <4>3 DEF OpenPart, At, Finishing
    <3> QED BY <2>1, <3>1
  <2> QED BY <2>3, <2>4, <2>5, <2>6, <2>7, <2>8, <2>9 DEF Step
<1> QED BY <1>0, <1>1, <1>3, <1>4, <1>5 DEF DirectoriesHold, At, Key, TypeOK, CallTypeOK, CallOK

LEMMA StartDirectories ==
  ASSUME TypeOK, DirectoriesHold, NEW t \in Threads, Start(t)
  PROVE  DirectoriesHold'
<1>1. ASSUME NEW c, call' = [call EXCEPT ![t] = c], UNCHANGED <<uploadDir, used, acked>>,
             \A k \in Keys : wanted[k] => wanted'[k],
             c.step # "rmdir",
             c.step \in Finishing /\ c.id \in Ids => c.id \in used /\ uploadDir[c.id] = c.key
      PROVE  DirectoriesHold'
  <2>1. call'[t] = c /\ \A s \in Threads \ {t} : call'[s] = call[s]
    BY <1>1 DEF TypeOK, CallTypeOK
  <2>2. \A s \in Threads : At(s, "rmdir") => Key(s) \in Keys
    BY DEF TypeOK, CallTypeOK, CallOK, At, Key
  <2> QED BY <1>1, <2>1, <2>2 DEF DirectoriesHold, At, Key
<1>2. CASE \E k \in Keys, b \in Contents, e \in Contents \cup {None} : Put(t, k, b, e)
  <2>1. PICK k \in Keys, b \in Contents : \E e \in Contents \cup {None} : Put(t, k, b, e)
    BY <1>2
  <2> DEFINE c == [Idle EXCEPT !.step = "persist", !.key = k, !.body = b]
  <2>2. c.step = "persist" /\ c.id = None
    BY DEF Idle
  <2>3. call' = [call EXCEPT ![t] = c] /\ UNCHANGED <<uploadDir, used, acked, wanted>>
    BY <2>1 DEF Put, files
  <2> HIDE DEF c
  <2> QED BY <1>1, <2>2, <2>3, FilesystemAssumption
<1>3. CASE \E k \in Keys : Delete(t, k)
  <2>1. PICK k \in Keys : Delete(t, k)
    BY <1>3
  <2> DEFINE c == [Idle EXCEPT !.step = "unlinkMeta", !.key = k]
  <2>2. c.step = "unlinkMeta"
    BY DEF Idle
  <2>3. /\ call' = call \/ call' = [call EXCEPT ![t] = c]
        /\ UNCHANGED <<uploadDir, used, acked>>
        /\ wanted' = [wanted EXCEPT ![k] = TRUE]
    BY <2>1 DEF Delete
  <2> HIDE DEF c
  <2>4. \A j \in Keys : wanted[j] => wanted'[j]
    BY <2>3 DEF TypeOK, FilesTypeOK
  <2>5. CASE call' = call
    <3>1. \A s \in Threads : At(s, "rmdir") => Key(s) \in Keys
      BY DEF TypeOK, CallTypeOK, CallOK, At, Key
    <3> QED BY <2>3, <2>4, <2>5, <3>1 DEF DirectoriesHold, At, Key
  <2> QED BY <1>1, <2>2, <2>3, <2>4, <2>5 DEF Finishing
<1>4. CASE \E k \in Keys : Read(t, k)
  <2>1. PICK k \in Keys : Read(t, k)
    BY <1>4
  <2> DEFINE c == [Idle EXCEPT !.step = "readMeta", !.key = k]
  <2>2. c.step = "readMeta"
    BY DEF Idle
  <2>3. call' = [call EXCEPT ![t] = c] /\ UNCHANGED <<uploadDir, used, acked, wanted>>
    BY <2>1 DEF Read, files
  <2> HIDE DEF c
  <2> QED BY <1>1, <2>2, <2>3 DEF Finishing
<1>5. CASE \E m \in Ids, n \in Parts, b \in Contents : StorePart(t, m, n, b)
  <2>1. PICK m \in Ids, n \in Parts, b \in Contents : StorePart(t, m, n, b)
    BY <1>5
  <2> DEFINE c == [Idle EXCEPT !.step = "part", !.id = m, !.num = n, !.body = b]
  <2>2. c.step = "part"
    BY DEF Idle
  <2>3. call' = [call EXCEPT ![t] = c] /\ UNCHANGED <<uploadDir, used, acked, wanted>>
    BY <2>1 DEF StorePart, files
  <2> HIDE DEF c
  <2> QED BY <1>1, <2>2, <2>3 DEF Finishing
<1>6. CASE \E m \in Ids, plan \in [Parts -> Contents] : FinishMultipart(t, m, plan)
  <2>1. PICK m \in Ids, plan \in [Parts -> Contents] : FinishMultipart(t, m, plan)
    BY <1>6
  <2> DEFINE c == [Idle EXCEPT !.step = "hash", !.key = uploadDir[m], !.id = m, !.plan = plan]
  <2>2. c.step = "hash" /\ c.id = m /\ c.key = uploadDir[m]
    BY DEF Idle
  <2>3. /\ call' = [call EXCEPT ![t] = c] /\ UNCHANGED <<uploadDir, used, acked, wanted>>
        /\ uploadDir[m] # None
    BY <2>1 DEF FinishMultipart, files
  <2> HIDE DEF c
  <2>4. m \in used
    BY <2>3 DEF DirectoriesHold
  <2> QED BY <1>1, <2>2, <2>3, <2>4
<1> QED BY <1>2, <1>3, <1>4, <1>5, <1>6 DEF Start

LEMMA NextDirectories == TypeOK /\ DirectoriesHold /\ [Next]_vars => DirectoriesHold'
<1> SUFFICES ASSUME TypeOK, DirectoriesHold, [Next]_vars PROVE DirectoriesHold'
  OBVIOUS
<1> USE DEF TypeOK, FilesTypeOK
<1>1. CASE \E t \in Threads : Step(t) \/ Start(t)
  BY <1>1, StepDirectories, StartDirectories
<1>2. CASE \E k \in Keys, m \in Ids : StartMultipart(k, m)
  <2>1. PICK k \in Keys, m \in Ids : StartMultipart(k, m)
    BY <1>2
  <2>2. /\ m \notin used /\ used' = used \cup {m} /\ UNCHANGED <<call, acked, wanted>>
        /\ \A n \in Ids \ {m} : uploadDir'[n] = uploadDir[n]
    BY <2>1 DEF StartMultipart
  <2> QED BY <2>2 DEF DirectoriesHold, At, Key
<1>3. CASE \E m \in Ids : CancelMultipart(m)
  <2>1. /\ UNCHANGED <<used, call, acked, wanted>>
        /\ \A n \in Ids : uploadDir'[n] \in {uploadDir[n], None}
    BY <1>3 DEF CancelMultipart
  <2> QED BY <2>1 DEF DirectoriesHold, At, Key
<1>4. CASE Crash
  <2>1. UNCHANGED <<uploadDir, used>> /\ \A t \in Threads : call'[t] = Idle
    BY <1>4 DEF Crash
  <2> QED BY <2>1 DEF DirectoriesHold, At, Idle, Finishing
<1>5. CASE UNCHANGED vars
  BY <1>5 DEF vars, files, DirectoriesHold, At, Key
<1> QED BY <1>1, <1>2, <1>3, <1>4, <1>5 DEF Next

LEMMA DirectoriesCorrect == Spec => []DirectoriesHold
<1>1. Init => DirectoriesHold
  BY DEF Init, DirectoriesHold, At, Idle, Finishing
<1> QED BY <1>1, NextDirectories, TypeCorrect, PTL DEF Spec

LEMMA StartKeepsDirectories ==
  ASSUME NEW t \in Threads, Start(t)
  PROVE  uploadDir' = uploadDir
<1>1. CASE \E k \in Keys : Delete(t, k)
  BY <1>1 DEF Delete
<1>2. CASE \E k \in Keys, c \in Contents, e \in Contents \cup {None} : Put(t, k, c, e)
  BY <1>2 DEF Put, files
<1>3. CASE \E k \in Keys : Read(t, k)
  BY <1>3 DEF Read, files
<1>4. CASE \E m \in Ids, n \in Parts, c \in Contents : StorePart(t, m, n, c)
  BY <1>4 DEF StorePart, files
<1>5. CASE \E m \in Ids, plan \in [Parts -> Contents] : FinishMultipart(t, m, plan)
  BY <1>5 DEF FinishMultipart, files
<1> QED BY <1>1, <1>2, <1>3, <1>4, <1>5 DEF Start

(* finish_multipart gives up the staged parts only once their object is    *)
(* readable: no crash between two steps loses both.                        *)
THEOREM PartsOutlive == Spec => PartsOutliveCommit
<1> DEFINE Outlive == \A m \in Ids, k \in Keys :
             uploadDir[m] = k /\ uploadDir'[m] = None /\ call' # call /\ ~wanted[k]
               => Visible(k)' # None
<1>1. TypeOK /\ OneWriter /\ DirectoriesHold /\ [Next]_vars => [Outlive]_vars
  <2> SUFFICES ASSUME TypeOK, OneWriter, DirectoriesHold, Next,
                      NEW m \in Ids, NEW k \in Keys,
                      uploadDir[m] = k, uploadDir'[m] = None, call' # call, ~wanted[k]
               PROVE  Visible(k)' # None
    OBVIOUS
  <2>0. uploadDir'[m] # uploadDir[m]
    BY FilesystemAssumption
  <2>1. PICK t \in Threads : RemoveDirectory(t) /\ call[t].id = m
    <3>1. CASE \E t \in Threads : Step(t)
      BY <2>0, <3>1 DEF Step, PersistObject, WriteMetadata, WriteMetadataFails, UndoObject,
         RemoveMetadata, ReadMetadata, Stat, Open, Served, PersistPart, HashPart, OpenPart,
         RemoveDirectory, files, TypeOK, FilesTypeOK
    <3>2. ASSUME NEW t \in Threads, Start(t) PROVE FALSE
      BY <2>0, <3>2, StartKeepsDirectories
    <3> QED BY <2>0, <3>1, <3>2 DEF Next, StartMultipart, CancelMultipart, Crash
  <2>2. Key(t) = k /\ acked[k] # {}
    BY <2>1, FilesystemAssumption DEF RemoveDirectory, At, DirectoriesHold, Finishing
  <2>3. Visible(k) # None
    BY <2>2 DEF TypeOK, FilesTypeOK, OneWriter, KeyInv, Visible
  <2>4. Visible(k)' = Visible(k)
    BY <2>1 DEF RemoveDirectory, Visible
  <2> QED BY <2>3, <2>4
<1> QED BY <1>1, TypeCorrect, OneWriterCorrect, DirectoriesCorrect, PTL
      DEF Spec, PartsOutliveCommit

----------------------------------------------------------------------------
(* The S3 adapter.                                                         *)

Objects == [body : Contents, meta : Contents]
Assemblies == [key : S3Keys, meta : Contents, parts : [1..S3Parts -> Contents \cup {None}]]
Requests ==
  [step : {"idle", "put", "head", "create", "fetch", "served", "remove", "verify", "abort",
           "list", "listed"},
   op : {None, "put", "create", "delete", "get", "range", "complete", "cancel", "list"},
   key : S3Keys \cup {None}, body : Contents \cup {None}, meta : Contents \cup {None},
   id : S3Ids \cup {None}, seen : SUBSET S3Keys, must : SUBSET S3Keys, token : Nat]

(* The locals a request relies on, and the steps each operation has.       *)
RequestOK(r) ==
  /\ r \in Requests
  /\ r.step \in {"put", "head", "create", "remove", "verify"} => r.key \in S3Keys
  /\ r.op \in {"delete", "get", "range", "complete"} => r.key \in S3Keys
  /\ r.step \in {"put", "create"} => r.body \in Contents
  /\ r.step = "head" => r.op \in {"create", "delete", "get", "range", "complete"}
  /\ r.step = "fetch" => r.meta \in Contents /\ r.op \in {"get", "range", "complete"}
  /\ r.step = "served" => r.op \in {"get", "range"}
  /\ r.step \in {"create", "abort"} => r.id \in S3Ids
  /\ r.op = "complete" => r.step \in {"verify", "head", "fetch", "remove"}
  /\ r.op = "create" /\ r.step = "head" => r.body \in Contents /\ r.id \in S3Ids
  /\ r.step \in {"remove", "verify"} => r.op \in {"delete", "complete"}
  /\ r.op = "list" <=> r.step \in {"list", "listed"}

(* The keys under which the bucket holds something.                        *)
Taken == {k \in S3Keys : object[k] # None}

BucketTypeOK ==
  /\ object \in [S3Keys -> Objects \cup {None}]
  /\ upload \in [S3Ids -> Assemblies \cup {None}]
  /\ s3Used \subseteq S3Ids
  /\ s3Acked \in [S3Keys -> SUBSET Contents]
  /\ s3Wanted \in [S3Keys -> BOOLEAN]
  /\ faults \in Nat
  /\ IsFiniteSet(Taken)

RequestsTypeOK ==
  /\ s3Call \in [Threads -> Requests]
  /\ \A t \in Threads : RequestOK(s3Call[t])

(* An object that was acknowledged is there, whole, and the only one that  *)
(* ever was; one that is being verified was not acknowledged, and nobody   *)
(* else verifies it.                                                       *)
KeyHolds(k) ==
  s3Wanted[k] \/
    /\ s3Acked[k] # {} =>
         /\ object[k] # None /\ object[k].body = object[k].meta
         /\ s3Acked[k] = {object[k].body}
    /\ \A t \in Threads : s3Call[t].op = "complete" /\ s3Call[t].key = k =>
         /\ s3Acked[k] = {} /\ object[k] # None
         /\ s3Call[t].step = "fetch" => s3Call[t].meta = object[k].meta
         /\ \A s \in Threads : s3Call[s].op = "complete" /\ s3Call[s].key = k => s = t

KeysHold == \A k \in S3Keys : KeyHolds(k)

(* What a request remembers of the time it began is still so, unless a     *)
(* deletion was asked for.                                                 *)
RequestHolds(r) ==
  /\ r.op = "delete" => s3Wanted[r.key]
  /\ \A k \in r.must : s3Acked[k] # {} \/ s3Wanted[k]
  /\ r.op \in {"get", "range"} => r.must \subseteq {r.key}
  /\ r.op = "range" /\ r.step = "fetch" /\ r.must # {} /\ ~s3Wanted[r.key] =>
       r.meta = object[r.key].meta
  /\ r.step = "served" =>
       \/ r.body = r.meta
       \/ r.op = "range" /\ (r.must = {} \/ s3Wanted[r.key])
  /\ r.op = "list" => \A k \in r.must :
       s3Wanted[k] \/ k \in r.seen \/ (r.step = "list" /\ k > r.token)

RequestsHold == \A t \in Threads : RequestHolds(s3Call[t])

(* Before anything failed, an object that is not what its metadata says is *)
(* still being verified by the completion that made it.                    *)
MixedIsWatched ==
  faults = 0 => \A k \in S3Keys :
    object[k] # None /\ object[k].body # object[k].meta =>
      \E t \in Threads :
        /\ s3Call[t].op = "complete" /\ s3Call[t].key = k
        /\ s3Call[t].step = "fetch" => s3Call[t].meta = object[k].meta

BucketInv == BucketTypeOK /\ RequestsTypeOK /\ KeysHold /\ RequestsHold /\ MixedIsWatched

----------------------------------------------------------------------------
LEMMA S3IdleOK ==
  /\ RequestOK(S3!Idle) /\ RequestHolds(S3!Idle)
  /\ S3!Idle.step = "idle" /\ S3!Idle.op = None /\ S3!Idle.token = 0 /\ S3!Idle.must = {}
  BY StorageAssumption DEF RequestOK, Requests, RequestHolds, S3!Idle

LEMMA ThreadMoves ==
  ASSUME RequestsTypeOK, NEW t \in Threads, NEW c, RequestOK(c),
         s3Call' = [s3Call EXCEPT ![t] = c]
  PROVE  /\ RequestsTypeOK'
         /\ s3Call'[t] = c
         /\ \A s \in Threads \ {t} : s3Call'[s] = s3Call[s]
<1>1. c \in Requests
  BY DEF RequestOK
<1>2. s3Call' \in [Threads -> Requests] /\ s3Call'[t] = c
  BY <1>1 DEF RequestsTypeOK
<1>3. \A s \in Threads \ {t} : s3Call'[s] = s3Call[s]
  BY DEF RequestsTypeOK
<1>4. ASSUME NEW s \in Threads PROVE RequestOK(s3Call[s])'
  <2>1. CASE s = t
    BY <1>2, <2>1 DEF RequestOK
  <2>2. CASE s # t
    BY <1>3, <2>2 DEF RequestsTypeOK, RequestOK
  <2> QED BY <2>1, <2>2
<1> QED BY <1>2, <1>3, <1>4 DEF RequestsTypeOK

(* A thread that is not at work keeps what it remembers, as long as        *)
(* deletions are not forgotten and acknowledged objects stay.              *)
Steady ==
  \A k \in S3Keys :
    /\ s3Wanted[k] => s3Wanted'[k]
    /\ s3Acked[k] # {} => s3Acked'[k] # {}
    /\ s3Acked[k] # {} /\ ~s3Wanted'[k] => object'[k] = object[k]

LEMMA Remembers ==
  ASSUME RequestsTypeOK, RequestsHold, Steady, NEW s \in Threads, s3Call'[s] = s3Call[s]
  PROVE  RequestHolds(s3Call[s])'
<1> DEFINE r == s3Call[s]
<1>1. RequestOK(r) /\ r \in Requests /\ RequestHolds(r)
  BY DEF RequestsTypeOK, RequestOK, RequestsHold
<1>2. r.must \subseteq S3Keys
  BY <1>1 DEF Requests
<1>3. r.op \in {"get", "range", "delete"} => r.key \in S3Keys
  BY <1>1 DEF RequestOK, Requests
<1> QED BY <1>1, <1>2, <1>3 DEF RequestHolds, Steady

(* A thread moves on and the bucket stays as it is.                        *)
LEMMA QuietRequest ==
  ASSUME BucketInv, NEW t \in Threads, NEW c, RequestOK(c), RequestHolds(c),
         s3Call' = [s3Call EXCEPT ![t] = c],
         UNCHANGED <<object, s3Acked, s3Wanted>>,
         c.op = "complete" => /\ s3Call[t].op = "complete" /\ c.key = s3Call[t].key
                              /\ c.step = "fetch" => c.meta = object[c.key].meta,
         faults' = 0 => faults = 0 /\ (s3Call[t].op = "complete" => c.op = "complete")
  PROVE  RequestsTypeOK' /\ KeysHold' /\ RequestsHold' /\ MixedIsWatched'
<1> USE DEF BucketInv
<1>1. /\ RequestsTypeOK' /\ s3Call'[t] = c
      /\ \A s \in Threads \ {t} : s3Call'[s] = s3Call[s]
  BY ThreadMoves
<1>2. RequestsHold'
  <2>1. RequestHolds(s3Call[t])'
    BY <1>1 DEF RequestHolds
  <2>2. Steady
    BY DEF Steady
  <2>3. ASSUME NEW s \in Threads \ {t} PROVE RequestHolds(s3Call[s])'
    BY <1>1, <2>2, <2>3, Remembers
  <2> QED BY <2>1, <2>3 DEF RequestsHold
<1>3. ASSUME NEW k \in S3Keys PROVE KeyHolds(k)'
  <2>1. KeyHolds(k)
    BY DEF KeysHold
  <2>2. \A s \in Threads : s3Call'[s].op = "complete" => s3Call[s].op = "complete" /\ s3Call'[s].key = s3Call[s].key
    BY <1>1
  <2>3. \A s \in Threads : s3Call'[s].op = "complete" /\ s3Call'[s].key = k /\ s3Call'[s].step = "fetch" /\ ~s3Wanted[k] =>
          s3Call'[s].meta = object[k].meta
    BY <1>1, <2>1 DEF KeyHolds
  <2> QED BY <2>1, <2>2, <2>3 DEF KeyHolds
<1>4. MixedIsWatched'
  <2> SUFFICES ASSUME faults' = 0, NEW k \in S3Keys, object[k] # None, object[k].body # object[k].meta
               PROVE  \E s \in Threads :
                        /\ s3Call'[s].op = "complete" /\ s3Call'[s].key = k
                        /\ s3Call'[s].step = "fetch" => s3Call'[s].meta = object[k].meta
    BY DEF MixedIsWatched
  <2>1. PICK s \in Threads : /\ s3Call[s].op = "complete" /\ s3Call[s].key = k
                             /\ s3Call[s].step = "fetch" => s3Call[s].meta = object[k].meta
    BY DEF MixedIsWatched
  <2>2. CASE s # t
    BY <1>1, <2>1, <2>2
  <2>3. CASE s = t
    BY <1>1, <2>1, <2>3
  <2> QED BY <2>2, <2>3
<1> QED BY <1>1, <1>2, <1>3, <1>4 DEF KeysHold

Keeps == RequestsTypeOK' /\ KeysHold' /\ RequestsHold' /\ MixedIsWatched'

(* A call answers, or moves to another step, with its other locals as they *)
(* are.                                                                    *)
LEMMA QuietAnswer ==
  ASSUME BucketInv, NEW t \in Threads, S3!Answer(t),
         UNCHANGED <<object, s3Acked, s3Wanted>>,
         faults' = 0 => faults = 0 /\ s3Call[t].op # "complete"
  PROVE  Keeps
<1> DEFINE c == S3!Idle
<1>1. /\ RequestOK(c) /\ RequestHolds(c) /\ c.op # "complete"
      /\ s3Call' = [s3Call EXCEPT ![t] = c]
  BY S3IdleOK, StorageAssumption DEF S3!Answer
<1> HIDE DEF c
<1> QED BY <1>1, QuietRequest DEF Keeps

LEMMA QuietFail ==
  ASSUME BucketInv, NEW t \in Threads, S3!Fail(t),
         UNCHANGED <<object, s3Acked, s3Wanted>>, faults' = 0 => faults = 0
  PROVE  Keeps
<1>1. CASE s3Call[t].op # "complete"
  BY <1>1, QuietAnswer DEF S3!Fail
<1>2. CASE s3Call[t].op = "complete"
  <2> DEFINE c == [s3Call[t] EXCEPT !.step = "remove"]
  <2>1. RequestOK(s3Call[t]) /\ s3Call[t] \in Requests /\ RequestHolds(s3Call[t])
    BY DEF BucketInv, RequestsTypeOK, RequestOK, RequestsHold
  <2>2. /\ RequestOK(c) /\ RequestHolds(c) /\ c.step # "fetch"
        /\ c.op = s3Call[t].op /\ c.key = s3Call[t].key
    BY <1>2, <2>1 DEF RequestOK, Requests, RequestHolds
  <2>3. s3Call' = [s3Call EXCEPT ![t] = c]
    BY <1>2 DEF S3!Fail, S3!GoTo
  <2> HIDE DEF c
  <2> QED BY <2>2, <2>3, QuietRequest DEF Keeps
<1> QED BY <1>1, <1>2

(* A call begins.                                                          *)
LEMMA QuietBegin ==
  ASSUME BucketInv, NEW t \in Threads, NEW c, S3!Begin(t, c), RequestOK(c), RequestHolds(c),
         c.op # "complete", UNCHANGED <<object, s3Acked, s3Wanted, faults>>
  PROVE  Keeps
<1>1. s3Call[t].op # "complete"
  BY DEF S3!Begin, S3!At, BucketInv, RequestsTypeOK, RequestOK
<1>2. s3Call' = [s3Call EXCEPT ![t] = c]
  BY DEF S3!Begin
<1> QED BY <1>1, <1>2, QuietRequest DEF Keeps

LEMMA HeadKeeps ==
  ASSUME BucketInv, NEW t \in Threads, S3!Head(t)
  PROVE  Keeps
<1> DEFINE r == s3Call[t]
           k == r.key
<1>1. RequestOK(r) /\ r \in Requests /\ RequestHolds(r)
  BY DEF BucketInv, RequestsTypeOK, RequestOK, RequestsHold
<1>2. /\ r.step = "head" /\ k \in S3Keys
      /\ UNCHANGED <<object, s3Acked, s3Wanted, faults>>
  BY <1>1 DEF S3!Head, S3!At, RequestOK, S3!store
<1>3. CASE r.op = "create" /\ object[k] = None
  <2> DEFINE c == [r EXCEPT !.step = "create"]
  <2>1. RequestOK(c) /\ RequestHolds(c) /\ c.op # "complete"
    BY <1>1, <1>2, <1>3 DEF RequestOK, Requests, RequestHolds
  <2>2. s3Call' = [s3Call EXCEPT ![t] = c]
    BY <1>3 DEF S3!Head, S3!GoTo, S3!Key
  <2> HIDE DEF c
  <2> QED BY <1>2, <1>3, <2>1, <2>2, QuietRequest DEF Keeps
<1>4. CASE r.op = "create" /\ object[k] # None
  BY <1>2, <1>4, QuietAnswer DEF S3!Head, S3!Key
<1>5. CASE r.op # "create" /\ ~S3!HeadAnswers(k)
  BY <1>2, <1>5, QuietFail DEF S3!Head, S3!Key
<1>6. CASE r.op = "delete" /\ S3!HeadAnswers(k)
  <2> DEFINE c == [r EXCEPT !.step = "remove"]
  <2>1. RequestOK(c) /\ RequestHolds(c) /\ c.op # "complete"
    BY <1>1, <1>2, <1>6 DEF RequestOK, Requests, RequestHolds
  <2>2. s3Call' = [s3Call EXCEPT ![t] = c]
    BY <1>6 DEF S3!Head, S3!GoTo, S3!Key
  <2> HIDE DEF c
  <2> QED BY <1>2, <1>6, <2>1, <2>2, QuietRequest DEF Keeps
<1>7. CASE r.op \notin {"create", "delete"} /\ S3!HeadAnswers(k)
  <2> DEFINE c == [r EXCEPT !.step = "fetch", !.meta = object[k].meta]
  <2>1. object[k].meta \in Contents
    BY <1>2, <1>7 DEF S3!HeadAnswers, BucketInv, BucketTypeOK, Objects
  <2>2. r.op \in {"get", "range", "complete"}
    BY <1>1, <1>2, <1>7 DEF RequestOK
  <2>3. /\ RequestOK(c) /\ RequestHolds(c) /\ c.op = r.op /\ c.key = r.key
        /\ c.meta = object[c.key].meta
    BY <1>1, <1>2, <2>1, <2>2 DEF RequestOK, Requests, RequestHolds
  <2>4. s3Call' = [s3Call EXCEPT ![t] = c]
    BY <1>7 DEF S3!Head, S3!Set, S3!Key
  <2> HIDE DEF c
  <2> QED BY <1>2, <2>3, <2>4, QuietRequest DEF Keeps
<1> QED BY <1>3, <1>4, <1>5, <1>6, <1>7

LEMMA VerifyKeeps ==
  ASSUME BucketInv, NEW t \in Threads, S3!VerifyCompleted(t)
  PROVE  Keeps
<1> DEFINE r == s3Call[t]
           c == [r EXCEPT !.step = "head"]
<1>1. RequestOK(r) /\ r \in Requests /\ RequestHolds(r)
  BY DEF BucketInv, RequestsTypeOK, RequestOK, RequestsHold
<1>2. r.step = "verify" /\ UNCHANGED <<object, s3Acked, s3Wanted, faults>>
  BY DEF S3!VerifyCompleted, S3!At, S3!store
<1>3. CASE S3!HeadAnswers(r.key)
  <2>1. /\ RequestOK(c) /\ RequestHolds(c) /\ c.op = r.op /\ c.key = r.key /\ c.step = "head"
    BY <1>1, <1>2 DEF RequestOK, Requests, RequestHolds
  <2>2. s3Call' = [s3Call EXCEPT ![t] = c]
    BY <1>3 DEF S3!VerifyCompleted, S3!GoTo, S3!Key
  <2> HIDE DEF c
  <2> QED BY <1>2, <2>1, <2>2, QuietRequest DEF Keeps
<1>4. CASE ~S3!HeadAnswers(r.key)
  BY <1>2, <1>4, QuietFail DEF S3!VerifyCompleted, S3!Key
<1> QED BY <1>3, <1>4

LEMMA FailsKeeps ==
  ASSUME BucketInv, NEW t \in Threads, S3!RequestFails(t)
  PROVE  Keeps
<1>1. faults' # 0 /\ UNCHANGED <<object, s3Acked, s3Wanted>>
  BY DEF S3!RequestFails, S3!store, BucketInv, BucketTypeOK
<1>2. CASE S3!Answer(t)
  BY <1>1, <1>2, QuietAnswer
<1>3. CASE S3!Fail(t)
  BY <1>1, <1>3, QuietFail
<1> QED BY <1>2, <1>3 DEF S3!RequestFails

LEMMA AnswersKeep ==
  ASSUME BucketInv, NEW t \in Threads,
         \/ S3!Served(t)
         \/ \E heard \in BOOLEAN : S3!CreateUpload(t, heard) \/ S3!AbortUpload(t, heard)
  PROVE  Keeps
<1>1. UNCHANGED <<object, s3Acked, s3Wanted>> /\ S3!Answer(t)
  BY DEF S3!Served, S3!CreateUpload, S3!AbortUpload, S3!store
<1>2. s3Call[t].step \in {"served", "listed", "create", "abort"}
  BY DEF S3!Served, S3!CreateUpload, S3!AbortUpload, S3!At
<1>3. s3Call[t].op # "complete"
  BY <1>2 DEF BucketInv, RequestsTypeOK, RequestOK
<1>4. faults' = 0 => faults = 0
  BY DEF S3!Served, S3!CreateUpload, S3!AbortUpload, S3!Heard, BucketInv, BucketTypeOK
<1> QED BY <1>1, <1>3, <1>4, QuietAnswer

LEMMA FetchKeeps ==
  ASSUME BucketInv, NEW t \in Threads, S3!Fetch(t)
  PROVE  Keeps
<1> DEFINE r == s3Call[t]
           k == r.key
           found == object[k]
           good == /\ found # None
                   /\ Size[found.body] = Size[r.meta]
                   /\ r.op # "range" => found.body = r.meta
<1>1. RequestOK(r) /\ r \in Requests /\ RequestHolds(r)
  BY DEF BucketInv, RequestsTypeOK, RequestOK, RequestsHold
<1>2. /\ r.step = "fetch" /\ k \in S3Keys /\ r.meta \in Contents
      /\ r.op \in {"get", "range", "complete"}
      /\ UNCHANGED <<object, s3Wanted, faults>>
  BY <1>1 DEF S3!Fetch, S3!At, RequestOK, S3!store
<1>3. CASE ~good
  <2>1. UNCHANGED <<object, s3Acked, s3Wanted, faults>> /\ S3!Fail(t)
    BY <1>2, <1>3 DEF S3!Fetch, S3!Key
  <2> QED BY <2>1, QuietFail
<1>4. CASE good /\ r.op # "complete"
  <2> DEFINE c == [r EXCEPT !.step = "served", !.body = found.body]
  <2>1. found \in Objects
    BY <1>2, <1>4 DEF BucketInv, BucketTypeOK
  <2>2. r.op = "range" /\ r.must # {} /\ ~s3Wanted[k] => found.body = r.meta
    <3> SUFFICES ASSUME r.op = "range", r.must # {}, ~s3Wanted[k] PROVE found.body = r.meta
      OBVIOUS
    <3>1. r.must = {k} /\ s3Acked[k] # {}
      BY <1>1 DEF RequestHolds
    <3>2. found.body = found.meta
      BY <1>2, <3>1 DEF BucketInv, KeysHold, KeyHolds
    <3> QED BY <1>1, <1>2, <3>2 DEF RequestHolds
  <2>3. RequestOK(c) /\ c.op # "complete"
    BY <1>1, <1>2, <1>4, <2>1 DEF RequestOK, Requests, Objects
  <2>4. RequestHolds(c)
    BY <1>1, <1>2, <1>4, <2>2 DEF RequestHolds, RequestOK, Requests
  <2>5. s3Call' = [s3Call EXCEPT ![t] = c] /\ UNCHANGED s3Acked
    BY <1>4 DEF S3!Fetch, S3!Set, S3!Key
  <2> HIDE DEF c
  <2> QED BY <1>2, <1>4, <2>3, <2>4, <2>5, QuietRequest DEF Keeps
<1>5. CASE good /\ r.op = "complete"
  <2>1. /\ s3Call' = [s3Call EXCEPT ![t] = S3!Idle]
        /\ s3Acked' = [s3Acked EXCEPT ![k] = @ \cup {r.meta}]
    BY <1>5 DEF S3!Fetch, S3!Answer, S3!Key
  <2>2. /\ RequestsTypeOK' /\ s3Call'[t] = S3!Idle
        /\ \A s \in Threads \ {t} : s3Call'[s] = s3Call[s]
    BY <2>1, S3IdleOK, ThreadMoves DEF BucketInv
  <2>3. /\ s3Acked'[k] = s3Acked[k] \cup {r.meta}
        /\ \A j \in S3Keys \ {k} : s3Acked'[j] = s3Acked[j]
    BY <1>2, <2>1 DEF BucketInv, BucketTypeOK
  <2>4. Steady
    BY <1>2, <2>3 DEF Steady
  <2>5. RequestsHold'
    <3>1. RequestHolds(s3Call[t])'
      BY <2>2, StorageAssumption DEF S3!Idle, RequestHolds
    <3>2. ASSUME NEW s \in Threads \ {t} PROVE RequestHolds(s3Call[s])'
      BY <2>2, <2>4, Remembers DEF BucketInv
    <3> QED BY <3>1, <3>2 DEF RequestsHold
  <2>6. S3!Idle.op # "complete"
    BY S3IdleOK, StorageAssumption
  <2>7. ASSUME NEW j \in S3Keys PROVE KeyHolds(j)'
    <3>1. KeyHolds(j)
      BY DEF BucketInv, KeysHold
    <3>2. CASE j = k
      BY <1>2, <1>5, <2>2, <2>3, <2>6, <3>1, <3>2 DEF KeyHolds
    <3>3. CASE j # k
      BY <1>2, <2>2, <2>3, <2>6, <3>1, <3>3 DEF KeyHolds
    <3> QED BY <3>2, <3>3
  <2>9. MixedIsWatched'
    <3> SUFFICES ASSUME faults' = 0, NEW j \in S3Keys, object[j] # None, object[j].body # object[j].meta
                 PROVE  \E s \in Threads :
                          /\ s3Call'[s].op = "complete" /\ s3Call'[s].key = j
                          /\ s3Call'[s].step = "fetch" => s3Call'[s].meta = object[j].meta
      BY <1>2 DEF MixedIsWatched
    <3>1. PICK s \in Threads : /\ s3Call[s].op = "complete" /\ s3Call[s].key = j
                               /\ s3Call[s].step = "fetch" => s3Call[s].meta = object[j].meta
      BY <1>2 DEF BucketInv, MixedIsWatched
    <3>2. s # t
      BY <1>2, <1>5, <3>1
    <3> QED BY <2>2, <3>1, <3>2
  <2> QED BY <2>2, <2>5, <2>7, <2>9 DEF Keeps, KeysHold
<1> QED BY <1>3, <1>4, <1>5

(* A set of numbers that is not empty has a least one, and a largest one   *)
(* if it is finite.                                                        *)
LEMMA LeastNumber ==
  ASSUME NEW T \in SUBSET Nat, T # {}
  PROVE  \E m \in T : \A n \in T : m <= n
<1> DEFINE R == OpToRel(<, Nat)
<1>1. IsWellFoundedOn(R, Nat)
  BY NatLessThanWellFounded, Zenon
<1>2. \A m, n \in T : <<n, m>> \in R <=> n < m
  BY DEF OpToRel
<1> HIDE DEF R
<1>3. PICK m \in T : \A n \in T : ~ (<<n, m>> \in R)
  BY <1>1, WFMin
<1>4. ASSUME NEW n \in T PROVE m <= n
  <2>1. m \in Nat /\ n \in Nat /\ ~ (n < m)
    BY <1>2, <1>3
  <2> QED BY <2>1
<1> QED BY <1>4

LEMMA FiniteIsBounded ==
  ASSUME NEW T \in SUBSET Nat, IsFiniteSet(T)
  PROVE  \E b \in Nat : \A x \in T : x <= b
<1>1. PICK n \in Nat : ExistsBijection(1..n, T)
  BY FS_NatBijection
<1>2. PICK f \in [1..n -> T] : \A x \in T : \E i \in 1..n : f[i] = x
  BY <1>1 DEF ExistsBijection, Bijection, Surjection
<1> DEFINE Bounded(m) == \E b \in Nat : \A i \in 1..m : f[i] <= b
           Lost == {m \in 0..n : ~Bounded(m)}
<1>3. Lost = {}
  <2>1. SUFFICES ASSUME Lost # {} PROVE FALSE
    OBVIOUS
  <2>2. PICK m \in Lost : \A i \in Lost : m <= i
    <3>1. Lost \subseteq Nat
      OBVIOUS
    <3> HIDE DEF Lost
    <3> QED BY <2>1, <3>1, LeastNumber
  <2>3. m # 0
    <3>1. \A i \in 1..0 : f[i] <= 0
      OBVIOUS
    <3> QED BY <2>2, <3>1
  <2>4. m \in 1..n /\ m - 1 \in 0..n /\ m - 1 \notin Lost
    <3>1. m \in 1..n /\ m - 1 \in 0..n /\ m - 1 < m
      BY <2>2, <2>3
    <3>2. Lost \subseteq Nat
      OBVIOUS
    <3> HIDE DEF Lost
    <3>3. \A i \in Lost : m <= i
      BY <2>2
    <3> QED BY <3>1, <3>2, <3>3
  <2>5. PICK b \in Nat : \A i \in 1..(m - 1) : f[i] <= b
    BY <2>4
  <2>6. f[m] \in Nat
    BY <2>4
  <2>7. \A i \in 1..m : f[i] <= b + f[m]
    <3> SUFFICES ASSUME NEW i \in 1..m PROVE f[i] <= b + f[m]
      OBVIOUS
    <3>1. CASE i = m
      BY <2>6, <3>1
    <3>2. CASE i # m
      <4>1. i \in 1..(m - 1) /\ i \in 1..n
        BY <2>4, <3>2
      <4>2. f[i] \in Nat /\ f[i] <= b
        BY <2>5, <4>1
      <4> QED BY <2>6, <4>2
    <3> QED BY <3>1, <3>2
  <2>8. b + f[m] \in Nat
    BY <2>6
  <2>9. Bounded(m)
    BY <2>7, <2>8
  <2> QED BY <2>2, <2>9
<1>4. Bounded(n)
  <2>1. n \in 0..n
    OBVIOUS
  <2> QED BY <1>3, <2>1
<1> QED BY <1>2, <1>4

LEMMA LargestNumber ==
  ASSUME NEW T \in SUBSET Nat, IsFiniteSet(T), T # {}
  PROVE  \E m \in T : \A n \in T : n <= m
<1> DEFINE B == {b \in Nat : \A x \in T : x <= b}
<1>1. B # {}
  BY FiniteIsBounded
<1>2. PICK m \in B : \A b \in B : m <= b
  BY <1>1, LeastNumber
<1>3. m \in T
  <2>1. SUFFICES ASSUME m \notin T PROVE FALSE
    OBVIOUS
  <2>2. PICK x \in T : TRUE
    OBVIOUS
  <2>3. m \in Nat /\ x \in Nat /\ x <= m /\ x # m
    BY <2>1, <2>2
  <2>4. \A y \in T : y \in Nat /\ y <= m /\ y # m
    BY <2>1
  <2>5. m - 1 \in B
    BY <2>3, <2>4
  <2> QED BY <1>2, <2>3, <2>5
<1> QED BY <1>2, <1>3

(* The instance counts as this module does.                                *)
LEMMA SameCount == ASSUME NEW T PROVE S3!Cardinality(T) = Cardinality(T)
  BY DEF S3!Cardinality, Cardinality

(* A page ends at its last key, and every other key after the token is     *)
(* beyond it.                                                              *)
LEMMA PageDivides ==
  ASSUME BucketTypeOK, NEW token \in Nat, S3!After(token) # S3!Page(token)
  PROVE  LET page == S3!Page(token)
             last == CHOOSE k \in page : \A j \in page : j <= k
         IN  /\ last \in Nat
             /\ \A k \in S3!After(token) \ page : k > last
<1> DEFINE A == S3!After(token)
           page == S3!Page(token)
           Below(k) == {j \in A : j < k}
           last == CHOOSE k \in page : \A j \in page : j <= k
<1>1. /\ A \subseteq Taken /\ A \subseteq Nat
      /\ page = {k \in A : Cardinality(Below(k)) < PageSize}
  <2>1. A \subseteq Taken /\ A \subseteq Nat
    BY StorageAssumption DEF S3!After, Taken
  <2>2. page = {k \in A : S3!Cardinality(Below(k)) < PageSize}
    BY DEF S3!Page
  <2>3. \A k : S3!Cardinality(Below(k)) = Cardinality(Below(k))
    BY SameCount
  <2> QED BY <2>1, <2>2, <2>3
<1>2. A # {} /\ page \subseteq A
  BY <1>1
<1> HIDE DEF A, page
<1>3. IsFiniteSet(A) /\ IsFiniteSet(page)
  BY <1>1, <1>2, FS_Subset DEF BucketTypeOK
<1>4. \A k \in A : IsFiniteSet(Below(k)) /\ Cardinality(Below(k)) \in Nat
  BY <1>3, FS_Subset, FS_CardinalityType
<1>5. page # {}
  <2>1. PICK m \in A : \A n \in A : m <= n
    BY <1>1, <1>2, LeastNumber
  <2>2. Below(m) = {}
    <3>1. \A j \in A : j \in Nat /\ m \in Nat /\ m <= j
      BY <1>1, <2>1
    <3> QED BY <3>1
  <2>3. Cardinality(Below(m)) = 0
    BY <2>2, FS_EmptySet
  <2> QED BY <1>1, <2>1, <2>3, StorageAssumption
<1>6. last \in page /\ \A j \in page : j <= last
  <2>1. \E k \in page : \A j \in page : j <= k
    BY <1>1, <1>2, <1>3, <1>5, LargestNumber
  <2> QED BY <2>1
<1> HIDE DEF last
<1>7. ASSUME NEW k \in A \ page PROVE k > last
  <2>1. SUFFICES ASSUME ~(k > last) PROVE FALSE
    OBVIOUS
  <2>2. k \in Nat /\ last \in Nat /\ last \in A
    BY <1>1, <1>2, <1>6
  <2>3. Below(k) \subseteq Below(last)
    <3>1. ASSUME NEW j \in A, j < k PROVE j < last
      <4>1. j \in Nat
        BY <1>1
      <4> QED BY <2>1, <2>2, <3>1, <4>1
    <3> QED BY <3>1
  <2>4. Cardinality(Below(k)) <= Cardinality(Below(last))
    BY <1>4, <2>2, <2>3, FS_Subset
  <2>5. Cardinality(Below(last)) < PageSize /\ ~(Cardinality(Below(k)) < PageSize)
    BY <1>1, <1>6, <1>7
  <2> QED BY <1>4, <2>2, <2>4, <2>5, StorageAssumption
<1> QED BY <1>1, <1>2, <1>6, <1>7 DEF A, page, last

LEMMA ListKeeps ==
  ASSUME BucketInv, NEW t \in Threads, S3!ListPage(t)
  PROVE  Keeps
<1> DEFINE r == s3Call[t]
           page == S3!Page(r.token)
           truncated == S3!After(r.token) # page
           last == CHOOSE k \in page : \A j \in page : j <= k
           c == [r EXCEPT !.seen = @ \cup page,
                          !.step = IF truncated THEN "list" ELSE "listed",
                          !.token = IF truncated THEN last ELSE @]
<1>1. RequestOK(r) /\ r \in Requests /\ RequestHolds(r)
  BY DEF BucketInv, RequestsTypeOK, RequestOK, RequestsHold
<1>2. /\ r.step = "list" /\ r.op = "list" /\ r.token \in Nat
      /\ UNCHANGED <<object, s3Acked, s3Wanted, faults>>
  BY <1>1 DEF S3!ListPage, S3!At, RequestOK, Requests, S3!store
<1>3. page \subseteq S3!After(r.token) /\ page \subseteq S3Keys
  BY DEF S3!Page, S3!After
<1>4. truncated => last \in Nat /\ \A k \in S3!After(r.token) \ page : k > last
  BY <1>2, PageDivides DEF BucketInv
<1>5. CASE S3!Answer(t)
  BY <1>2, <1>5, QuietAnswer
<1>6. CASE s3Call' = [s3Call EXCEPT ![t] = c]
  <2>1. ASSUME NEW k \in r.must, ~s3Wanted[k], k \notin c.seen
        PROVE  truncated /\ k > last
    <3>1. k \in S3Keys /\ k \notin r.seen /\ k \notin page /\ k > r.token /\ s3Acked[k] # {}
      BY <1>1, <1>2, <2>1 DEF Requests, RequestHolds
    <3>2. object[k] # None
      BY <2>1, <3>1 DEF BucketInv, KeysHold, KeyHolds
    <3>3. k \in S3!After(r.token)
      BY <3>1, <3>2 DEF S3!After
    <3>4. truncated
      BY <3>1, <3>3
    <3> QED BY <1>4, <3>1, <3>3, <3>4
  <2> HIDE DEF page, truncated, last
  <2>2. /\ c.op = "list" /\ c.must = r.must
        /\ c.step = (IF truncated THEN "list" ELSE "listed")
        /\ c.token = (IF truncated THEN last ELSE r.token)
    BY <1>1, <1>2 DEF Requests
  <2>3. RequestOK(c)
    BY <1>1, <1>2, <1>3, <1>4 DEF RequestOK, Requests
  <2>4. \A k \in c.must : s3Acked[k] # {} \/ s3Wanted[k]
    BY <1>1, <2>2 DEF RequestHolds
  <2> HIDE DEF c
  <2>5. RequestHolds(c)
    BY <2>1, <2>2, <2>4 DEF RequestHolds
  <2> QED BY <1>2, <1>6, <2>2, <2>3, <2>5, QuietRequest DEF Keeps
<1> QED BY <1>5, <1>6 DEF S3!ListPage, S3!Set

(* Put, get, list, create_multipart and cancel_multipart begin.            *)
LEMMA BeginKeeps ==
  ASSUME BucketInv, NEW t \in Threads, S3!Start(t), ~\E k \in S3Keys : S3!Delete(t, k)
  PROVE  Keeps
<1>1. CASE \E k \in S3Keys, c \in Contents, e \in Contents \cup {None} : S3!Put(t, k, c, e)
  <2>1. PICK k \in S3Keys, b \in Contents : \E e \in Contents \cup {None} : S3!Put(t, k, b, e)
    BY <1>1
  <2> DEFINE c == [S3!Idle EXCEPT !.op = "put", !.step = "put", !.key = k, !.body = b]
  <2>2. RequestOK(c) /\ RequestHolds(c) /\ c.op # "complete"
    BY S3IdleOK DEF RequestOK, Requests, RequestHolds, S3!Idle
  <2>3. S3!Begin(t, c) /\ UNCHANGED <<object, s3Acked, s3Wanted, faults>>
    BY <2>1 DEF S3!Put, S3!Call, S3!store
  <2> HIDE DEF c
  <2> QED BY <2>2, <2>3, QuietBegin
<1>2. CASE \E k \in S3Keys, c \in Contents, m \in S3Ids : S3!CreateMultipart(t, k, c, m)
  <2>1. PICK k \in S3Keys, b \in Contents, m \in S3Ids : S3!CreateMultipart(t, k, b, m)
    BY <1>2
  <2> DEFINE c == [S3!Idle EXCEPT !.op = "create", !.step = "head", !.key = k, !.body = b, !.id = m]
  <2>2. RequestOK(c) /\ RequestHolds(c) /\ c.op # "complete"
    BY S3IdleOK DEF RequestOK, Requests, RequestHolds, S3!Idle
  <2>3. S3!Begin(t, c) /\ UNCHANGED <<object, s3Acked, s3Wanted, faults>>
    BY <2>1 DEF S3!CreateMultipart
  <2> HIDE DEF c
  <2> QED BY <2>2, <2>3, QuietBegin
<1>3. CASE \E k \in S3Keys, op \in {"get", "range"} : S3!Get(t, k, op)
  <2>1. PICK k \in S3Keys, op \in {"get", "range"} : S3!Get(t, k, op)
    BY <1>3
  <2> DEFINE c == [S3!Idle EXCEPT !.op = op, !.step = "head", !.key = k,
                                  !.must = {k} \cap S3!Settled]
  <2>2. RequestOK(c) /\ c.op # "complete"
    BY S3IdleOK DEF RequestOK, Requests, S3!Idle
  <2>3. RequestHolds(c)
    BY DEF RequestHolds, S3!Idle, S3!Settled
  <2>4. S3!Begin(t, c) /\ UNCHANGED <<object, s3Acked, s3Wanted, faults>>
    BY <2>1 DEF S3!Get, S3!store
  <2> HIDE DEF c
  <2> QED BY <2>2, <2>3, <2>4, QuietBegin
<1>4. CASE \E m \in S3Ids : S3!CancelMultipart(t, m)
  <2>1. PICK m \in S3Ids : S3!CancelMultipart(t, m)
    BY <1>4
  <2> DEFINE c == [S3!Idle EXCEPT !.op = "cancel", !.step = "abort", !.id = m]
  <2>2. RequestOK(c) /\ RequestHolds(c) /\ c.op # "complete"
    BY S3IdleOK DEF RequestOK, Requests, RequestHolds, S3!Idle
  <2>3. S3!Begin(t, c) /\ UNCHANGED <<object, s3Acked, s3Wanted, faults>>
    BY <2>1 DEF S3!CancelMultipart, S3!store
  <2> HIDE DEF c
  <2> QED BY <2>2, <2>3, QuietBegin
<1>5. CASE S3!List(t)
  <2> DEFINE c == [S3!Idle EXCEPT !.op = "list", !.step = "list", !.must = S3!Settled]
  <2>1. RequestOK(c) /\ c.op # "complete"
    BY S3IdleOK DEF RequestOK, Requests, S3!Idle, S3!Settled
  <2>2. RequestHolds(c)
    BY StorageAssumption DEF RequestHolds, S3!Idle, S3!Settled
  <2>3. S3!Begin(t, c) /\ UNCHANGED <<object, s3Acked, s3Wanted, faults>>
    BY <1>5 DEF S3!List, S3!store
  <2> HIDE DEF c
  <2> QED BY <2>1, <2>2, <2>3, QuietBegin
<1> QED BY <1>1, <1>2, <1>3, <1>4, <1>5 DEF S3!Start

LEMMA DeleteKeeps ==
  ASSUME BucketInv, NEW t \in Threads, NEW k \in S3Keys, S3!Delete(t, k)
  PROVE  Keeps
<1> DEFINE c == [S3!Idle EXCEPT !.op = "delete", !.step = "head", !.key = k, !.body = None]
<1>1. /\ RequestOK(c) /\ c.op # "complete"
      /\ s3Wanted'[k] => RequestHolds(c)'
  BY S3IdleOK DEF RequestOK, Requests, RequestHolds, S3!Idle
<1>2. /\ s3Call' = [s3Call EXCEPT ![t] = c] /\ s3Call[t].step = "idle"
      /\ s3Wanted' = [s3Wanted EXCEPT ![k] = TRUE]
      /\ UNCHANGED <<object, s3Acked, faults>>
  BY DEF S3!Delete, S3!Call, S3!Begin, S3!At, S3!store
<1> HIDE DEF c
<1>3. /\ RequestsTypeOK' /\ s3Call'[t] = c
      /\ \A s \in Threads \ {t} : s3Call'[s] = s3Call[s]
  BY <1>1, <1>2, ThreadMoves DEF BucketInv
<1>4. s3Wanted'[k] /\ \A j \in S3Keys \ {k} : s3Wanted'[j] = s3Wanted[j]
  BY <1>2 DEF BucketInv, BucketTypeOK
<1>5. s3Call[t].op # "complete"
  BY <1>2 DEF BucketInv, RequestsTypeOK, RequestOK
<1>6. Steady
  BY <1>2, <1>4 DEF Steady
<1>7. RequestsHold'
  <2>1. RequestHolds(s3Call[t])'
    BY <1>1, <1>3, <1>4 DEF RequestHolds
  <2>2. ASSUME NEW s \in Threads \ {t} PROVE RequestHolds(s3Call[s])'
    BY <1>3, <1>6, Remembers DEF BucketInv
  <2> QED BY <2>1, <2>2 DEF RequestsHold
<1>8. KeysHold'
  BY <1>1, <1>2, <1>3, <1>4 DEF BucketInv, KeysHold, KeyHolds
<1>9. MixedIsWatched'
  BY <1>2, <1>3, <1>5 DEF BucketInv, MixedIsWatched
<1> QED BY <1>3, <1>7, <1>8, <1>9 DEF Keeps

(* A request that writes or removes the object of one key, at which nobody *)
(* else verifies a completion and where nothing was acknowledged before,   *)
(* or a deletion was asked for.                                            *)
Writes(t, c, k) ==
  /\ s3Call' = [s3Call EXCEPT ![t] = c]
  /\ UNCHANGED s3Wanted
  /\ RequestOK(c) /\ c.must = {} /\ c.op \in {None, "complete"} /\ c.step \in {"idle", "verify"}
  /\ \A j \in S3Keys \ {k} : object'[j] = object[j] /\ s3Acked'[j] = s3Acked[j]
  /\ s3Call[t].op = "complete" => s3Call[t].key = k
  /\ c.op = "complete" => c.key = k
  /\ s3Acked[k] \subseteq s3Acked'[k]
  /\ s3Wanted[k] \/
       /\ s3Acked[k] = {}
       /\ \A s \in Threads \ {t} : ~(s3Call[s].op = "complete" /\ s3Call[s].key = k)
       /\ s3Acked'[k] # {} => /\ object'[k] # None /\ object'[k].body = object'[k].meta
                              /\ s3Acked'[k] = {object'[k].body}
       /\ c.op = "complete" => s3Acked'[k] = {} /\ object'[k] # None
  /\ faults' = 0 => faults = 0
  /\ \/ faults' # 0 \/ object'[k] = None \/ c.op = "complete"
     \/ object'[k].body = object'[k].meta

LEMMA WriteKeeps ==
  ASSUME BucketInv, NEW t \in Threads, NEW c, NEW k \in S3Keys, Writes(t, c, k)
  PROVE  Keeps
<1>0. None # "complete"
  BY StorageAssumption
<1>1. /\ RequestsTypeOK' /\ s3Call'[t] = c
      /\ \A s \in Threads \ {t} : s3Call'[s] = s3Call[s]
  BY ThreadMoves DEF BucketInv, Writes
<1>2. Steady
  BY DEF Steady, Writes
<1>3. RequestsHold'
  <2>1. RequestHolds(s3Call[t])'
    BY <1>1, StorageAssumption DEF RequestHolds, Writes
  <2>2. ASSUME NEW s \in Threads \ {t} PROVE RequestHolds(s3Call[s])'
    BY <1>1, <1>2, Remembers DEF BucketInv
  <2> QED BY <2>1, <2>2 DEF RequestsHold
<1>4. ASSUME NEW j \in S3Keys PROVE KeyHolds(j)'
  <2>1. KeyHolds(j)
    BY DEF BucketInv, KeysHold
  <2>2. CASE j = k
    BY <1>0, <1>1, <2>1, <2>2 DEF KeyHolds, Writes
  <2>3. CASE j # k
    BY <1>0, <1>1, <2>1, <2>3 DEF KeyHolds, Writes
  <2> QED BY <2>2, <2>3
<1>5. MixedIsWatched'
  <2> SUFFICES ASSUME faults' = 0, NEW j \in S3Keys,
                      object'[j] # None, object'[j].body # object'[j].meta
               PROVE  \E s \in Threads :
                        /\ s3Call'[s].op = "complete" /\ s3Call'[s].key = j
                        /\ s3Call'[s].step = "fetch" => s3Call'[s].meta = object'[j].meta
    BY DEF MixedIsWatched
  <2>1. CASE j = k
    BY <1>1, <2>1 DEF Writes
  <2>2. CASE j # k
    <3>1. faults = 0 /\ object'[j] = object[j]
      BY <2>2 DEF Writes
    <3>2. PICK s \in Threads : /\ s3Call[s].op = "complete" /\ s3Call[s].key = j
                               /\ s3Call[s].step = "fetch" => s3Call[s].meta = object[j].meta
      BY <3>1 DEF BucketInv, MixedIsWatched
    <3>3. s # t
      BY <2>2, <3>2 DEF Writes
    <3> QED BY <1>1, <3>1, <3>2, <3>3
  <2> QED BY <2>1, <2>2
<1> QED BY <1>1, <1>3, <1>4, <1>5 DEF Keeps, KeysHold

LEMMA PutKeeps ==
  ASSUME BucketInv, NEW t \in Threads, NEW heard \in BOOLEAN, S3!PutObject(t, heard)
  PROVE  Keeps
<1>1. PICK k \in S3Keys, b \in Contents : k = s3Call[t].key /\ b = s3Call[t].body
  BY DEF S3!PutObject, S3!At, BucketInv, RequestsTypeOK, RequestOK
<1>2. /\ s3Call[t].op # "complete" /\ UNCHANGED s3Wanted
      /\ s3Call' = [s3Call EXCEPT ![t] = S3!Idle]
      /\ faults' = 0 => faults = 0
  BY DEF S3!PutObject, S3!Answer, S3!At, S3!Heard, BucketInv, BucketTypeOK, RequestsTypeOK, RequestOK
<1>3. CASE object[k] = None
  <2> DEFINE new == [body |-> b, meta |-> b]
  <2>1. /\ object' = [object EXCEPT ![k] = new]
        /\ s3Acked' = IF heard THEN [s3Acked EXCEPT ![k] = @ \cup {b}] ELSE s3Acked
    BY <1>1, <1>3 DEF S3!PutObject, S3!Key
  <2>2. new # None /\ new.body = b /\ new.meta = b
    BY StorageAssumption
  <2> HIDE DEF new
  <2>3. /\ object'[k] = new
        /\ \A j \in S3Keys \ {k} : object'[j] = object[j] /\ s3Acked'[j] = s3Acked[j]
        /\ s3Acked'[k] = IF heard THEN s3Acked[k] \cup {b} ELSE s3Acked[k]
    BY <2>1 DEF BucketInv, BucketTypeOK
  <2>4. ~s3Wanted[k] => /\ s3Acked[k] = {}
                        /\ \A s \in Threads : ~(s3Call[s].op = "complete" /\ s3Call[s].key = k)
    BY <1>3 DEF BucketInv, KeysHold, KeyHolds
  <2>5. /\ RequestOK(S3!Idle) /\ S3!Idle.must = {} /\ S3!Idle.op = None /\ S3!Idle.step = "idle"
        /\ None # "complete"
    BY S3IdleOK, StorageAssumption
  <2>6. Writes(t, S3!Idle, k)
    BY <1>2, <2>2, <2>3, <2>4, <2>5 DEF Writes
  <2> QED BY <2>6, WriteKeeps
<1>4. CASE object[k] # None
  <2>1. UNCHANGED <<object, s3Acked, s3Wanted>> /\ S3!Answer(t)
    BY <1>1, <1>4 DEF S3!PutObject, S3!Key
  <2> QED BY <1>2, <2>1, QuietAnswer
<1> QED BY <1>3, <1>4

LEMMA RemoveKeeps ==
  ASSUME BucketInv, NEW t \in Threads, NEW heard \in BOOLEAN, S3!RemoveObject(t, heard)
  PROVE  Keeps
<1>1. /\ s3Call[t].key \in S3Keys /\ s3Call[t].op \in {"delete", "complete"}
      /\ RequestHolds(s3Call[t])
  BY DEF S3!RemoveObject, S3!At, BucketInv, RequestsTypeOK, RequestOK, RequestsHold
<1>2. PICK k \in S3Keys : k = s3Call[t].key
  BY <1>1
<1>3. /\ UNCHANGED <<s3Wanted, s3Acked>>
      /\ s3Call' = [s3Call EXCEPT ![t] = S3!Idle]
      /\ faults' = 0 => faults = 0
      /\ object' = [object EXCEPT ![k] = None]
  BY <1>2 DEF S3!RemoveObject, S3!Answer, S3!Heard, S3!Key, BucketInv, BucketTypeOK
<1>4. object'[k] = None /\ \A j \in S3Keys \ {k} : object'[j] = object[j]
  BY <1>3 DEF BucketInv, BucketTypeOK
<1>5. ~s3Wanted[k] => /\ s3Acked[k] = {}
                      /\ \A s \in Threads \ {t} : ~(s3Call[s].op = "complete" /\ s3Call[s].key = k)
  BY <1>1, <1>2 DEF BucketInv, KeysHold, KeyHolds, RequestHolds
<1>6. /\ RequestOK(S3!Idle) /\ S3!Idle.must = {} /\ S3!Idle.op = None /\ S3!Idle.step = "idle"
      /\ None # "complete"
  BY S3IdleOK, StorageAssumption
<1>7. Writes(t, S3!Idle, k)
  BY <1>2, <1>3, <1>4, <1>5, <1>6 DEF Writes
<1> QED BY <1>7, WriteKeeps

LEMMA CompleteKeeps ==
  ASSUME BucketInv, NEW t \in Threads, NEW m \in S3Ids, NEW plan, NEW heard \in BOOLEAN,
         S3!CompleteUpload(t, m, plan, heard)
  PROVE  Keeps
<1>1. upload[m] \in Assemblies /\ upload[m].key \in S3Keys /\ upload[m].meta \in Contents
  BY DEF S3!CompleteUpload, BucketInv, BucketTypeOK, Assemblies
<1>2. PICK k \in S3Keys : k = upload[m].key
  BY <1>1
<1> DEFINE new == [body |-> S3!Assembled(plan), meta |-> upload[m].meta]
           c == IF heard THEN [S3!Idle EXCEPT !.op = "complete", !.step = "verify", !.key = k]
                ELSE S3!Idle
<1>3. new \in Objects /\ new # None
  BY <1>1, StorageAssumption, FilesystemAssumption DEF Objects, S3!Assembled
<1>4. /\ object[k] = None /\ UNCHANGED <<s3Wanted, s3Acked>>
      /\ s3Call' = [s3Call EXCEPT ![t] = c]
      /\ s3Call[t].step = "idle"
      /\ object' = [object EXCEPT ![k] = new]
  BY <1>2 DEF S3!CompleteUpload, S3!Begin, S3!At
<1>5. faults' = 0 => faults = 0 /\ heard
  BY DEF S3!CompleteUpload, S3!Heard, BucketInv, BucketTypeOK
<1>6. /\ RequestOK(c) /\ c.must = {} /\ c.op \in {None, "complete"} /\ c.step \in {"idle", "verify"}
      /\ heard => c.op = "complete"
      /\ c.op = "complete" => c.key = k
  BY S3IdleOK, StorageAssumption DEF RequestOK, Requests, S3!Idle
<1> HIDE DEF new, c
<1>7. object'[k] = new /\ \A j \in S3Keys \ {k} : object'[j] = object[j]
  BY <1>4 DEF BucketInv, BucketTypeOK
<1>8. ~s3Wanted[k] => /\ s3Acked[k] = {}
                      /\ \A s \in Threads : ~(s3Call[s].op = "complete" /\ s3Call[s].key = k)
  BY <1>4 DEF BucketInv, KeysHold, KeyHolds
<1>9. s3Call[t].op # "complete"
  BY <1>4 DEF BucketInv, RequestsTypeOK, RequestOK
<1>10. Writes(t, c, k)
  BY <1>3, <1>4, <1>5, <1>6, <1>7, <1>8, <1>9 DEF Writes
<1> QED BY <1>10, WriteKeeps

LEMMA CrashKeeps == ASSUME BucketInv, S3!Crash PROVE Keeps
<1>1. /\ s3Call' = [t \in Threads |-> S3!Idle] /\ faults' # 0
      /\ UNCHANGED <<object, s3Acked, s3Wanted>>
  BY DEF S3!Crash, S3!store, BucketInv, BucketTypeOK
<1>2. \A t \in Threads : s3Call'[t] = S3!Idle
  BY <1>1
<1>3. RequestOK(S3!Idle) /\ S3!Idle \in Requests /\ S3!Idle.op # "complete"
  BY S3IdleOK, StorageAssumption DEF RequestOK
<1>4. RequestsTypeOK'
  BY <1>1, <1>2, <1>3 DEF RequestsTypeOK, RequestOK
<1>5. RequestsHold'
  BY <1>2, StorageAssumption DEF RequestsHold, RequestHolds, S3!Idle
<1>6. KeysHold'
  BY <1>1, <1>2, <1>3 DEF BucketInv, KeysHold, KeyHolds
<1> QED BY <1>1, <1>4, <1>5, <1>6 DEF Keeps, MixedIsWatched

(* What an action does to the bucket, apart from the threads.              *)
LEMMA ObjectType ==
  ASSUME BucketTypeOK, NEW k \in S3Keys, NEW o \in Objects \cup {None},
         object' = [object EXCEPT ![k] = o]
  PROVE  object' \in [S3Keys -> Objects \cup {None}] /\ IsFiniteSet(Taken')
<1>1. object' \in [S3Keys -> Objects \cup {None}]
  BY DEF BucketTypeOK
<1>2. Taken' \subseteq Taken \cup {k}
  BY DEF BucketTypeOK, Taken
<1>3. IsFiniteSet(Taken \cup {k})
  BY FS_AddElement DEF BucketTypeOK
<1> QED BY <1>1, <1>2, <1>3, FS_Subset

LEMMA RequestTypes ==
  ASSUME BucketInv, NEW t \in Threads, S3!Request(t)
  PROVE  BucketTypeOK'
<1> USE DEF BucketInv
<1>0. BucketTypeOK /\ RequestOK(s3Call[t]) /\ s3Call[t] \in Requests
  BY DEF RequestsTypeOK, RequestOK
<1>1. CASE S3!Head(t) \/ S3!Served(t) \/ S3!VerifyCompleted(t) \/ S3!ListPage(t) \/ S3!RequestFails(t)
  <2>1. UNCHANGED <<object, upload, s3Used, s3Acked, s3Wanted>> /\ faults' \in Nat
    BY <1>0, <1>1 DEF S3!Head, S3!Served, S3!VerifyCompleted, S3!ListPage, S3!RequestFails,
       S3!store, BucketTypeOK
  <2> QED BY <1>0, <2>1 DEF BucketTypeOK, Taken
<1>2. CASE S3!Fetch(t)
  <2>1. s3Call[t].step = "fetch" /\ s3Call[t].meta \in Contents /\ s3Call[t].key \in S3Keys
    BY <1>0, <1>2 DEF S3!Fetch, S3!At, RequestOK
  <2>2. \/ s3Acked' = s3Acked
        \/ s3Acked' = [s3Acked EXCEPT ![s3Call[t].key] = @ \cup {s3Call[t].meta}]
    BY <1>2 DEF S3!Fetch, S3!Key
  <2>3. s3Acked' \in [S3Keys -> SUBSET Contents]
    BY <1>0, <2>1, <2>2 DEF BucketTypeOK
  <2>4. UNCHANGED <<object, upload, s3Used, s3Wanted, faults>>
    BY <1>2 DEF S3!Fetch, S3!store
  <2> QED BY <1>0, <2>3, <2>4 DEF BucketTypeOK, Taken
<1>3. CASE \E heard \in BOOLEAN : S3!PutObject(t, heard)
  <2> DEFINE k == s3Call[t].key
             b == s3Call[t].body
             new == [body |-> b, meta |-> b]
  <2>1. k \in S3Keys /\ b \in Contents
    BY <1>0, <1>3 DEF S3!PutObject, S3!At, RequestOK
  <2>2. new \in Objects
    BY <2>1 DEF Objects
  <2>3. /\ \/ object' = object
           \/ object' = [object EXCEPT ![k] = new]
        /\ \/ s3Acked' = s3Acked
           \/ s3Acked' = [s3Acked EXCEPT ![k] = @ \cup {b}]
    BY <1>3 DEF S3!PutObject, S3!Key
  <2>4. UNCHANGED <<upload, s3Used, s3Wanted>> /\ faults' \in Nat
    BY <1>0, <1>3 DEF S3!PutObject, S3!Heard, BucketTypeOK
  <2> HIDE DEF new
  <2>5. object' \in [S3Keys -> Objects \cup {None}] /\ IsFiniteSet(Taken')
    BY <1>0, <2>1, <2>2, <2>3, ObjectType DEF BucketTypeOK, Taken
  <2>6. s3Acked' \in [S3Keys -> SUBSET Contents]
    BY <1>0, <2>1, <2>3 DEF BucketTypeOK
  <2> QED BY <1>0, <2>4, <2>5, <2>6 DEF BucketTypeOK
<1>4. CASE \E heard \in BOOLEAN : S3!RemoveObject(t, heard)
  <2>1. s3Call[t].key \in S3Keys
    BY <1>0, <1>4 DEF S3!RemoveObject, S3!At, RequestOK
  <2>2. /\ object' = [object EXCEPT ![s3Call[t].key] = None]
        /\ UNCHANGED <<upload, s3Used, s3Acked, s3Wanted>> /\ faults' \in Nat
    BY <1>0, <1>4 DEF S3!RemoveObject, S3!Heard, S3!Key, BucketTypeOK
  <2>3. object' \in [S3Keys -> Objects \cup {None}] /\ IsFiniteSet(Taken')
    BY <1>0, <2>1, <2>2, ObjectType
  <2> QED BY <1>0, <2>2, <2>3 DEF BucketTypeOK
<1>5. CASE \E heard \in BOOLEAN : S3!CreateUpload(t, heard)
  <2> DEFINE a == [key |-> s3Call[t].key, meta |-> s3Call[t].body,
                   parts |-> [n \in S3!Parts |-> None]]
  <2>1. /\ s3Call[t].key \in S3Keys /\ s3Call[t].body \in Contents /\ s3Call[t].id \in S3Ids
    BY <1>0, <1>5 DEF S3!CreateUpload, S3!At, RequestOK
  <2>2. a \in Assemblies
    BY <2>1 DEF Assemblies, S3!Parts
  <2>3. upload' = upload \/ upload' = [upload EXCEPT ![s3Call[t].id] = a]
    BY <1>5 DEF S3!CreateUpload, S3!Key
  <2>4. UNCHANGED <<object, s3Used, s3Acked, s3Wanted>> /\ faults' \in Nat
    BY <1>0, <1>5 DEF S3!CreateUpload, S3!Heard, BucketTypeOK
  <2> HIDE DEF a
  <2>5. upload' \in [S3Ids -> Assemblies \cup {None}]
    BY <1>0, <2>1, <2>2, <2>3 DEF BucketTypeOK
  <2> QED BY <1>0, <2>4, <2>5 DEF BucketTypeOK, Taken
<1>6. CASE \E heard \in BOOLEAN : S3!AbortUpload(t, heard)
  <2>1. /\ upload' = [upload EXCEPT ![s3Call[t].id] = None]
        /\ UNCHANGED <<object, s3Used, s3Acked, s3Wanted>> /\ faults' \in Nat
    BY <1>0, <1>6 DEF S3!AbortUpload, S3!Heard, BucketTypeOK
  <2>2. upload' \in [S3Ids -> Assemblies \cup {None}]
    BY <1>0, <2>1 DEF BucketTypeOK
  <2> QED BY <1>0, <2>1, <2>2 DEF BucketTypeOK, Taken
<1>7. CASE \E heard \in BOOLEAN, m \in S3Ids, plan \in [S3!Parts -> Contents] :
             S3!CompleteUpload(t, m, plan, heard)
  <2>1. PICK heard \in BOOLEAN, m \in S3Ids, plan \in [S3!Parts -> Contents] :
               S3!CompleteUpload(t, m, plan, heard)
    BY <1>7
  <2> DEFINE new == [body |-> S3!Assembled(plan), meta |-> upload[m].meta]
  <2>2. upload[m].key \in S3Keys /\ upload[m].meta \in Contents
    BY <1>0, <2>1 DEF S3!CompleteUpload, BucketTypeOK, Assemblies
  <2>3. new \in Objects
    BY <2>2, FilesystemAssumption DEF Objects, S3!Assembled
  <2>4. /\ object' = [object EXCEPT ![upload[m].key] = new]
        /\ upload' = [upload EXCEPT ![m] = None]
        /\ UNCHANGED <<s3Used, s3Acked, s3Wanted>> /\ faults' \in Nat
    BY <1>0, <2>1 DEF S3!CompleteUpload, S3!Heard, BucketTypeOK
  <2> HIDE DEF new
  <2>5. object' \in [S3Keys -> Objects \cup {None}] /\ IsFiniteSet(Taken')
    BY <1>0, <2>2, <2>3, <2>4, ObjectType
  <2>6. upload' \in [S3Ids -> Assemblies \cup {None}]
    BY <1>0, <2>4 DEF BucketTypeOK
  <2> QED BY <1>0, <2>4, <2>5, <2>6 DEF BucketTypeOK
<1> QED BY <1>1, <1>2, <1>3, <1>4, <1>5, <1>6, <1>7 DEF S3!Request

LEMMA OtherTypes ==
  ASSUME BucketTypeOK,
         \/ \E t \in Threads : S3!Start(t)
         \/ \E m \in S3Ids, n \in S3!Parts, c \in Contents : S3!UploadPart(m, n, c)
         \/ S3!Crash
  PROVE  BucketTypeOK'
<1>1. CASE \E t \in Threads : S3!Start(t)
  <2>1. /\ UNCHANGED <<object, upload, s3Acked, faults>>
        /\ s3Used' \subseteq S3Ids
        /\ s3Wanted' \in [S3Keys -> BOOLEAN]
    BY <1>1 DEF S3!Start, S3!Put, S3!CreateMultipart, S3!Delete, S3!Get, S3!CancelMultipart,
       S3!List, S3!store, BucketTypeOK
  <2> QED BY <2>1 DEF BucketTypeOK, Taken
<1>2. CASE \E m \in S3Ids, n \in S3!Parts, c \in Contents : S3!UploadPart(m, n, c)
  <2>1. PICK m \in S3Ids, n \in S3!Parts, c \in Contents : S3!UploadPart(m, n, c)
    BY <1>2
  <2> DEFINE a == [upload[m] EXCEPT !.parts[n] = c]
  <2>2. upload[m] \in Assemblies
    BY <2>1 DEF S3!UploadPart, BucketTypeOK
  <2>3. a \in Assemblies
    BY <2>2 DEF Assemblies, S3!Parts
  <2>4. upload' = [upload EXCEPT ![m] = a]
    BY <2>1 DEF S3!UploadPart
  <2>5. UNCHANGED <<object, s3Used, s3Acked, s3Wanted, faults>>
    BY <2>1 DEF S3!UploadPart
  <2> HIDE DEF a
  <2>6. upload' \in [S3Ids -> Assemblies \cup {None}]
    BY <2>3, <2>4 DEF BucketTypeOK
  <2> QED BY <2>5, <2>6 DEF BucketTypeOK, Taken
<1>3. CASE S3!Crash
  <2>1. UNCHANGED <<object, upload, s3Used, s3Acked, s3Wanted>> /\ faults' \in Nat
    BY <1>3 DEF S3!Crash, S3!store, BucketTypeOK
  <2> QED BY <2>1 DEF BucketTypeOK, Taken
<1> QED BY <1>1, <1>2, <1>3

LEMMA NextBucket == BucketInv /\ [S3!Next]_(S3!vars) => BucketInv'
<1> SUFFICES ASSUME BucketInv, [S3!Next]_(S3!vars) PROVE BucketInv'
  OBVIOUS
<1>1. CASE \E t \in Threads : S3!Request(t)
  <2>1. PICK t \in Threads : S3!Request(t)
    BY <1>1
  <2>2. Keeps
    BY <2>1, HeadKeeps, FetchKeeps, VerifyKeeps, ListKeeps, FailsKeeps, AnswersKeep, PutKeeps,
       RemoveKeeps, CompleteKeeps DEF S3!Request
  <2>3. BucketTypeOK'
    BY <2>1, RequestTypes
  <2> QED BY <2>2, <2>3 DEF Keeps, BucketInv
<1>2. CASE \E t \in Threads : S3!Start(t)
  <2>1. Keeps
    BY <1>2, BeginKeeps, DeleteKeeps
  <2>2. BucketTypeOK'
    BY <1>2, OtherTypes DEF BucketInv
  <2> QED BY <2>1, <2>2 DEF Keeps, BucketInv
<1>3. CASE S3!Crash
  BY <1>3, CrashKeeps, OtherTypes DEF Keeps, BucketInv
<1>4. CASE UNCHANGED <<object, s3Call, s3Acked, s3Wanted, faults>> /\ BucketTypeOK'
  BY <1>4 DEF BucketInv, RequestsTypeOK, RequestOK, KeysHold, KeyHolds, RequestsHold,
     RequestHolds, MixedIsWatched
<1>5. CASE \E m \in S3Ids, n \in S3!Parts, c \in Contents : S3!UploadPart(m, n, c)
  BY <1>4, <1>5, OtherTypes DEF S3!UploadPart, BucketInv
<1>6. CASE UNCHANGED S3!vars
  <2>1. BucketTypeOK'
    BY <1>6 DEF S3!vars, S3!store, BucketInv, BucketTypeOK, Taken
  <2> QED BY <1>4, <1>6, <2>1 DEF S3!vars, S3!store
<1> QED BY <1>1, <1>2, <1>3, <1>5, <1>6 DEF S3!Next

LEMMA InitBucket == S3!Init => BucketInv
<1> SUFFICES ASSUME S3!Init PROVE BucketInv
  OBVIOUS
<1> USE DEF S3!Init
<1>1. RequestOK(S3!Idle) /\ S3!Idle \in Requests /\ RequestHolds(S3!Idle) /\ S3!Idle.op # "complete"
  BY S3IdleOK, StorageAssumption DEF RequestOK
<1>2. Taken = {}
  BY DEF Taken
<1>3. BucketTypeOK
  BY <1>2, FS_EmptySet DEF BucketTypeOK
<1>4. \A t \in Threads : s3Call[t] = S3!Idle
  OBVIOUS
<1>5. RequestsTypeOK /\ RequestsHold /\ KeysHold
  BY <1>1, <1>4 DEF RequestsTypeOK, RequestsHold, KeysHold, KeyHolds
<1> QED BY <1>3, <1>5 DEF BucketInv, MixedIsWatched

(* Every object the S3 adapter acknowledged stays as it was written.       *)
LEMMA BucketCorrect == S3!Spec => []BucketInv
BY InitBucket, NextBucket, PTL DEF S3!Spec

----------------------------------------------------------------------------
(* The S3 adapter's refinement of ObjectStore.                             *)

LEMMA CommittedType ==
  ASSUME BucketTypeOK, NEW k \in S3Keys
  PROVE  S3!Committed(k) \in Contents \cup {None}
  BY DEF BucketTypeOK, Objects, S3!Committed

LEMMA BucketStutter ==
  ASSUME \A k \in S3Keys : S3!Committed(k)' = S3!Committed(k), UNCHANGED <<s3Acked, s3Wanted>>
  PROVE  UNCHANGED S3!Contract!vars
  BY DEF S3!Contract!vars

(* A step that touches one key whose deletion was asked for is a race.     *)
LEMMA BucketRace ==
  ASSUME BucketTypeOK, BucketTypeOK', NEW q \in S3Keys, s3Wanted[q], UNCHANGED s3Wanted,
         \A k \in S3Keys \ {q} : object'[k] = object[k] /\ s3Acked'[k] = s3Acked[k]
  PROVE  S3!Contract!Next
<1>1. S3!Committed(q)' \in Contents \cup {None} /\ s3Acked'[q] \in SUBSET Contents
  <2>1. S3!Committed(q)' \in Contents \cup {None}
    BY DEF BucketTypeOK, Objects, S3!Committed
  <2> QED BY <2>1 DEF BucketTypeOK
<1>2. \A k \in S3Keys \ {q} : S3!Committed(k)' = S3!Committed(k)
  BY DEF S3!Committed
<1>3. [k \in S3Keys |-> S3!Committed(k)'] =
        [[k \in S3Keys |-> S3!Committed(k)] EXCEPT ![q] = S3!Committed(q)']
  BY <1>2
<1>4. s3Acked' = [s3Acked EXCEPT ![q] = s3Acked'[q]]
  BY DEF BucketTypeOK
<1>5. S3!Contract!Race(q)
  BY <1>1, <1>3, <1>4 DEF S3!Contract!Race
<1> QED BY <1>5 DEF S3!Contract!Next

(* The first acknowledgement of an object that is whole commits it.        *)
LEMMA BucketCommit ==
  ASSUME BucketTypeOK, NEW q \in S3Keys, NEW b \in Contents,
         ~s3Wanted[q], s3Acked[q] = {}, UNCHANGED s3Wanted,
         s3Acked' = [s3Acked EXCEPT ![q] = @ \cup {b}],
         object'[q] # None, object'[q].body = b, object'[q].meta = b,
         \A k \in S3Keys \ {q} : object'[k] = object[k]
  PROVE  S3!Contract!Next
<1>1. s3Acked' = [s3Acked EXCEPT ![q] = {b}]
  BY DEF BucketTypeOK
<1>2. s3Acked'[q] = {b} /\ \A k \in S3Keys \ {q} : s3Acked'[k] = s3Acked[k]
  BY <1>1 DEF BucketTypeOK
<1>3. S3!Committed(q) = None /\ S3!Committed(q)' = b
  BY <1>2 DEF S3!Committed
<1>4. \A k \in S3Keys \ {q} : S3!Committed(k)' = S3!Committed(k)
  BY <1>2 DEF S3!Committed
<1>5. [k \in S3Keys |-> S3!Committed(k)'] =
        [[k \in S3Keys |-> S3!Committed(k)] EXCEPT ![q] = b]
  BY <1>3, <1>4
<1>6. S3!Contract!Commit(q, b)
  BY <1>1, <1>3, <1>5 DEF S3!Contract!Commit
<1> QED BY <1>6 DEF S3!Contract!Next

(* A step on a key that has acknowledged nothing and keeps it so commits   *)
(* nothing.                                                                *)
LEMMA BucketSilent ==
  ASSUME NEW q \in S3Keys, s3Acked[q] = {}, UNCHANGED <<s3Acked, s3Wanted>>,
         \A k \in S3Keys \ {q} : object'[k] = object[k]
  PROVE  UNCHANGED S3!Contract!vars
<1>1. \A k \in S3Keys : S3!Committed(k)' = S3!Committed(k)
  BY DEF S3!Committed
<1> QED BY <1>1, BucketStutter

LEMMA PutRefines ==
  ASSUME BucketInv, BucketTypeOK', NEW t \in Threads, NEW heard \in BOOLEAN, S3!PutObject(t, heard)
  PROVE  [S3!Contract!Next]_(S3!Contract!vars)
<1>1. PICK k \in S3Keys, b \in Contents : k = s3Call[t].key /\ b = s3Call[t].body
  BY DEF S3!PutObject, S3!At, BucketInv, RequestsTypeOK, RequestOK
<1>2. BucketTypeOK /\ UNCHANGED s3Wanted
  BY DEF S3!PutObject, BucketInv
<1>3. CASE object[k] # None
  <2>1. UNCHANGED <<object, s3Acked>>
    BY <1>1, <1>3 DEF S3!PutObject, S3!Key
  <2> QED BY <1>2, <2>1, BucketStutter DEF S3!Committed
<1>4. CASE object[k] = None
  <2>1. /\ object' = [object EXCEPT ![k] = [body |-> b, meta |-> b]]
        /\ s3Acked' = IF heard THEN [s3Acked EXCEPT ![k] = @ \cup {b}] ELSE s3Acked
    BY <1>1, <1>4 DEF S3!PutObject, S3!Key
  <2>2. /\ object'[k] # None /\ object'[k].body = b /\ object'[k].meta = b
        /\ \A j \in S3Keys \ {k} : object'[j] = object[j] /\ s3Acked'[j] = s3Acked[j]
    BY <1>2, <2>1, StorageAssumption DEF BucketTypeOK
  <2>3. CASE s3Wanted[k]
    BY <1>2, <2>2, <2>3, BucketRace
  <2>4. CASE ~s3Wanted[k]
    <3>1. s3Acked[k] = {}
      BY <1>4, <2>4 DEF BucketInv, KeysHold, KeyHolds
    <3>2. CASE heard
      BY <1>2, <2>1, <2>2, <2>4, <3>1, <3>2, BucketCommit
    <3>3. CASE ~heard
      BY <1>2, <2>1, <2>2, <3>1, <3>3, BucketSilent
    <3> QED BY <3>2, <3>3
  <2> QED BY <2>3, <2>4
<1> QED BY <1>3, <1>4

LEMMA RemoveRefines ==
  ASSUME BucketInv, BucketTypeOK', NEW t \in Threads, NEW heard \in BOOLEAN,
         S3!RemoveObject(t, heard)
  PROVE  [S3!Contract!Next]_(S3!Contract!vars)
<1>1. /\ s3Call[t].key \in S3Keys /\ s3Call[t].op \in {"delete", "complete"}
      /\ RequestHolds(s3Call[t])
  BY DEF S3!RemoveObject, S3!At, BucketInv, RequestsTypeOK, RequestOK, RequestsHold
<1>2. PICK k \in S3Keys : k = s3Call[t].key
  BY <1>1
<1>3. BucketTypeOK /\ UNCHANGED <<s3Acked, s3Wanted>> /\ object' = [object EXCEPT ![k] = None]
  BY <1>2 DEF S3!RemoveObject, S3!Key, BucketInv
<1>4. \A j \in S3Keys \ {k} : object'[j] = object[j]
  BY <1>3 DEF BucketTypeOK
<1>5. CASE s3Wanted[k]
  BY <1>3, <1>4, <1>5, BucketRace
<1>6. CASE ~s3Wanted[k]
  <2>1. s3Acked[k] = {}
    BY <1>1, <1>2, <1>6 DEF BucketInv, KeysHold, KeyHolds, RequestHolds
  <2> QED BY <1>3, <1>4, <2>1, BucketSilent
<1> QED BY <1>5, <1>6

LEMMA CompleteRefines ==
  ASSUME BucketInv, BucketTypeOK', NEW t \in Threads, NEW m \in S3Ids, NEW plan,
         NEW heard \in BOOLEAN, S3!CompleteUpload(t, m, plan, heard)
  PROVE  [S3!Contract!Next]_(S3!Contract!vars)
<1>1. upload[m].key \in S3Keys
  BY DEF S3!CompleteUpload, BucketInv, BucketTypeOK, Assemblies
<1>2. PICK k \in S3Keys : k = upload[m].key
  BY <1>1
<1>3. /\ BucketTypeOK /\ UNCHANGED <<s3Acked, s3Wanted>> /\ object[k] = None
      /\ \A j \in S3Keys \ {k} : object'[j] = object[j]
  BY <1>2 DEF S3!CompleteUpload, BucketInv, BucketTypeOK
<1>4. CASE s3Wanted[k]
  BY <1>3, <1>4, BucketRace
<1>5. CASE ~s3Wanted[k]
  <2>1. s3Acked[k] = {}
    BY <1>3, <1>5 DEF BucketInv, KeysHold, KeyHolds
  <2> QED BY <1>3, <2>1, BucketSilent
<1> QED BY <1>4, <1>5

LEMMA FetchRefines ==
  ASSUME BucketInv, BucketTypeOK', NEW t \in Threads, S3!Fetch(t)
  PROVE  [S3!Contract!Next]_(S3!Contract!vars)
<1>1. BucketTypeOK /\ UNCHANGED <<object, s3Wanted>>
  BY DEF S3!Fetch, S3!store, BucketInv
<1>2. CASE s3Acked' = s3Acked
  BY <1>1, <1>2, BucketStutter DEF S3!Committed
<1>3. CASE s3Acked' # s3Acked
  <2>1. /\ s3Call[t].op = "complete" /\ s3Call[t].step = "fetch" /\ s3Call[t].key \in S3Keys
        /\ s3Call[t].meta \in Contents
    BY <1>3 DEF S3!Fetch, S3!At, BucketInv, RequestsTypeOK, RequestOK
  <2>2. PICK k \in S3Keys, b \in Contents : k = s3Call[t].key /\ b = s3Call[t].meta
    BY <2>1
  <2>3. /\ object[k] # None /\ object[k].body = b
        /\ s3Acked' = [s3Acked EXCEPT ![k] = @ \cup {b}]
    BY <1>3, <2>1, <2>2 DEF S3!Fetch, S3!Key
  <2>4. \A j \in S3Keys \ {k} : s3Acked'[j] = s3Acked[j]
    BY <1>1, <2>3 DEF BucketTypeOK
  <2>5. CASE s3Wanted[k]
    BY <1>1, <2>4, <2>5, BucketRace
  <2>6. CASE ~s3Wanted[k]
    <3>1. s3Acked[k] = {} /\ object[k].meta = b
      BY <2>1, <2>2, <2>6 DEF BucketInv, KeysHold, KeyHolds
    <3> QED BY <1>1, <2>3, <2>6, <3>1, BucketCommit
  <2> QED BY <2>5, <2>6
<1> QED BY <1>2, <1>3

LEMMA StartsRefine ==
  ASSUME BucketInv, NEW t \in Threads, S3!Start(t)
  PROVE  [S3!Contract!Next]_(S3!Contract!vars)
<1>1. CASE \E k \in S3Keys : S3!Delete(t, k)
  <2>1. PICK q \in S3Keys : S3!Delete(t, q)
    BY <1>1
  <2>2. UNCHANGED <<object, s3Acked>> /\ s3Wanted' = [s3Wanted EXCEPT ![q] = TRUE]
    BY <2>1 DEF S3!Delete, S3!store
  <2>3. [k \in S3Keys |-> S3!Committed(k)'] = [k \in S3Keys |-> S3!Committed(k)]
    BY <2>2 DEF S3!Committed
  <2>4. S3!Contract!Delete(q)
    BY <2>2, <2>3 DEF S3!Contract!Delete
  <2> QED BY <2>4 DEF S3!Contract!Next
<1>2. CASE ~\E k \in S3Keys : S3!Delete(t, k)
  <2>1. UNCHANGED <<object, s3Acked, s3Wanted>>
    BY <1>2 DEF S3!Start, S3!Put, S3!CreateMultipart, S3!Get, S3!CancelMultipart, S3!List, S3!store
  <2> QED BY <2>1, BucketStutter DEF S3!Committed
<1> QED BY <1>1, <1>2

LEMMA BucketRefines ==
  BucketInv /\ BucketInv' /\ [S3!Next]_(S3!vars) => [S3!Contract!Next]_(S3!Contract!vars)
<1> SUFFICES ASSUME BucketInv, BucketInv', [S3!Next]_(S3!vars)
             PROVE  [S3!Contract!Next]_(S3!Contract!vars)
  OBVIOUS
<1>0. BucketTypeOK'
  BY DEF BucketInv
<1>1. CASE \E t \in Threads : S3!Request(t)
  <2>1. PICK t \in Threads : S3!Request(t)
    BY <1>1
  <2>2. CASE S3!Fetch(t)
    BY <1>0, <2>2, FetchRefines
  <2>3. CASE \E heard \in BOOLEAN : \/ S3!PutObject(t, heard) \/ S3!RemoveObject(t, heard)
                                    \/ \E m \in S3Ids, plan \in [S3!Parts -> Contents] :
                                         S3!CompleteUpload(t, m, plan, heard)
    BY <1>0, <2>3, PutRefines, RemoveRefines, CompleteRefines
  <2>4. CASE \/ S3!Head(t) \/ S3!Served(t) \/ S3!VerifyCompleted(t) \/ S3!ListPage(t)
             \/ S3!RequestFails(t)
             \/ \E heard \in BOOLEAN : S3!CreateUpload(t, heard) \/ S3!AbortUpload(t, heard)
    <3>1. UNCHANGED <<object, s3Acked, s3Wanted>>
      BY <2>4 DEF S3!Head, S3!Served, S3!VerifyCompleted, S3!ListPage, S3!RequestFails,
         S3!CreateUpload, S3!AbortUpload, S3!store
    <3> QED BY <3>1, BucketStutter DEF S3!Committed
  <2> QED BY <2>1, <2>2, <2>3, <2>4 DEF S3!Request
<1>2. CASE \E t \in Threads : S3!Start(t)
  BY <1>2, StartsRefine
<1>3. CASE \/ S3!Crash \/ UNCHANGED S3!vars
           \/ \E m \in S3Ids, n \in S3!Parts, c \in Contents : S3!UploadPart(m, n, c)
  <2>1. UNCHANGED <<object, s3Acked, s3Wanted>>
    BY <1>3 DEF S3!Crash, S3!UploadPart, S3!vars, S3!store
  <2> QED BY <2>1, BucketStutter DEF S3!Committed
<1> QED BY <1>1, <1>2, <1>3 DEF S3!Next

LEMMA BucketInit == S3!Init => S3!Contract!Init
  BY DEF S3!Init, S3!Contract!Init, S3!Committed

----------------------------------------------------------------------------
(* The adapter that is not open does nothing.                              *)
LEMMA AdaptersRun == StorageSpec => Spec /\ S3!Spec
<1>1. OpenStorage => Init /\ S3!Init
  BY DEF OpenStorage
<1>2. [UseStorage]_<<adapter, vars, s3vars>> => [Next]_vars /\ [S3!Next]_(S3!vars)
  <2>1. UNCHANGED s3vars => UNCHANGED S3!vars
    BY DEF s3vars, S3!vars, S3!store
  <2> QED BY <2>1 DEF UseStorage
<1> QED BY <1>1, <1>2, PTL DEF StorageSpec, Spec, S3!Spec

LEMMA BucketIsSound ==
  BucketInv => S3!ServesWhole /\ S3!BucketIsHonest /\ S3!ListsCommitted
<1> SUFFICES ASSUME BucketInv PROVE S3!ServesWhole /\ S3!BucketIsHonest /\ S3!ListsCommitted
  OBVIOUS
<1>1. S3!ServesWhole
  <2> SUFFICES ASSUME NEW t \in Threads, s3Call[t].step = "served",
                      s3Call[t].body # s3Call[t].meta
               PROVE  /\ s3Call[t].op = "range"
                      /\ ~(s3Call[t].must \subseteq S3!Settled /\ s3Call[t].must # {})
    BY DEF S3!ServesWhole, S3!At
  <2>1. /\ s3Call[t].op = "range" /\ s3Call[t].must \subseteq {s3Call[t].key}
        /\ s3Call[t].must = {} \/ s3Wanted[s3Call[t].key]
    BY DEF BucketInv, RequestsHold, RequestHolds
  <2> QED BY <2>1 DEF S3!Settled
<1>2. S3!BucketIsHonest
  <2> SUFFICES ASSUME \A t \in Threads : s3Call[t].step = "idle", faults = 0,
                      NEW k \in S3Keys, object[k] # None, object[k].body # object[k].meta
               PROVE  FALSE
    BY DEF S3!BucketIsHonest, S3!At
  <2>1. PICK t \in Threads : s3Call[t].op = "complete"
    BY DEF BucketInv, MixedIsWatched
  <2> QED BY <2>1 DEF BucketInv, RequestsTypeOK, RequestOK
<1>3. S3!ListsCommitted
  <2> SUFFICES ASSUME NEW t \in Threads, s3Call[t].step = "listed",
                      NEW k \in s3Call[t].must, ~s3Wanted[k]
               PROVE  k \in s3Call[t].seen
    BY DEF S3!ListsCommitted, S3!At
  <2>1. s3Call[t].op = "list"
    BY DEF BucketInv, RequestsTypeOK, RequestOK
  <2> QED BY <2>1 DEF BucketInv, RequestsHold, RequestHolds
<1> QED BY <1>1, <1>2, <1>3

(* Whichever adapter is open: a get serves only bytes its checksum         *)
(* describes, a listing misses no committed object, and a completion in    *)
(* the bucket that did not verify is taken away again.                     *)
THEOREM StorageIsSoundHolds == StorageSpec => []StorageIsSound
<1>1. Spec => [](TypeOK /\ ReadsAreWhole /\ InventoryIsComplete)
  BY TypeCorrect, ReadsCorrect, InventoryCorrect, PTL
<1>2. S3!Spec => [](S3!ServesWhole /\ S3!BucketIsHonest /\ S3!ListsCommitted)
  BY BucketCorrect, BucketIsSound, PTL
<1> QED BY <1>1, <1>2, AdaptersRun, PTL DEF StorageIsSound

(* The filesystem adapter keeps its promises to a server that opened it:   *)
(* one writer of a key, the write-once store of the contract, and parts    *)
(* that stay until their object is readable.                               *)
THEOREM FilesystemServes ==
  StorageSpec => []OneWriter /\ ImplementsObjectStore /\ PartsOutliveCommit
BY OneWriterCorrect, AdapterImplementsStore, PartsOutlive, AdaptersRun, PTL

(* The S3 adapter implements that store too, although requests fail, answers are   *)
(* lost and a completion is verified only after the object is there.       *)
THEOREM S3AdapterImplementsStore == StorageSpec => S3ImplementsObjectStore
<1>1. S3!Spec => S3!Contract!Spec
  BY BucketInit, BucketRefines, BucketCorrect, PTL DEF S3!Spec, S3!Contract!Spec
<1> QED BY <1>1, AdaptersRun, PTL DEF S3ImplementsObjectStore, S3!ImplementsStore
=============================================================================
