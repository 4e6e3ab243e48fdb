------------------------ MODULE TimelapseBatchProofs ------------------------
(* What holds of TimelapseBatch for every set of recordings and users, every *)
(* number of batches and crashes.  Nothing is assumed for the types; where   *)
(* the batches of users and the automatic one keep apart, the printer        *)
(* answers SIZE and names do not run out (May = {}), no recording is lost.   *)
EXTENDS TimelapseBatch, TLAPS

----------------------------------------------------------------------------
(* The inductive invariant. *)

\* Where a thread has a recording in hand and a path it downloads to, or
\* converts from.
Placed == {"create", "transfer", "cleanup", "abort", "rename", "verify",
           "release", "transcode", "encode", "discard", "publish", "unlink"}

\* ... and a path it encodes to.
Encoding == {"encode", "discard", "publish", "unlink"}

\* A thread has its .part open only while it writes, where it created it.
FdInv(t) ==
  fd[t] = IF pc[t] \in {"transfer", "encode"} THEN "temp" ELSE "closed"

PathInv(t) ==
  /\ pc[t] \in {"erase", "dest"} => name[t] \in Names
  /\ pc[t] \in Placed =>
       /\ name[t] \in Names /\ dest[t] \in Paths /\ dest[t][1] = name[t]
       /\ name[t] \in Avi => dest[t][2] = "avi"
  /\ pc[t] \in Encoding =>
       /\ name[t] \in Avi
       /\ out[t] \in Paths /\ out[t][1] = name[t] /\ out[t][2] = "mp4"

\* What is under the names a thread works at.
ContentInv(t) ==
  /\ pc[t] \in {"create", "transfer", "rename"} => file[dest[t]] = "none"
  /\ pc[t] = "rename" =>
       /\ name[t] \in remote
       /\ temp[dest[t]] = IF short[t] THEN "partial" ELSE "full"
  /\ pc[t] \in {"verify", "release", "transcode", "encode", "publish", "unlink"} =>
       file[dest[t]] # "none"
  /\ pc[t] = "verify" => (~short[t] => file[dest[t]] = "full")
  /\ pc[t] = "release" => file[dest[t]] = "full"
  /\ pc[t] = "encode" => ~short[t]
  /\ pc[t] \in {"encode", "publish"} => file[out[t]] = "none"
  /\ pc[t] = "publish" => temp[out[t]] = file[dest[t]]
  /\ pc[t] = "unlink" => file[out[t]] = file[dest[t]]

----------------------------------------------------------------------------
(* Types and paths, for every May. *)

TInv == TypeOK /\ \A t \in Threads : PathInv(t)

\* Without a counter of its own a name is tried with every counter.
LEMMA PlainTries == Tries(0) = 0..MaxCollision
<1>1. MaxCollision \in Nat
  BY BatchAssumption
<1>2. \A i \in 1..MaxCollision : 0 * (MaxCollision + 1) + i = i
  BY <1>1
<1>3. \A k : k \in Tries(0) <=> k = 0 \/ k \in 1..MaxCollision
  BY <1>2 DEF Tries
<1>4. \A k : k \in 0..MaxCollision <=> k = 0 \/ k \in 1..MaxCollision
  BY <1>1
<1> QED BY <1>3, <1>4

LEMMA TriesCount ==
  /\ \A k \in 0..MaxCollision : k \in Tries(k) /\ Tries(k) \subseteq Counters
  /\ 0 \in 0..MaxCollision /\ 0..MaxCollision \subseteq Counters
<1>1. \A k \in 0..MaxCollision : Tries(k) \subseteq Counters
  BY DEF Counters
<1>2. \A k : k \in Tries(k)
  BY DEF Tries
<1>3. 0 \in 0..MaxCollision
  BY BatchAssumption
<1> QED BY <1>1, <1>2, <1>3

LEMMA PathFacts ==
  ASSUME NEW n \in Names
  PROVE  /\ \A k \in 0..MaxCollision :
              /\ <<n, "avi", k>> \in Paths /\ <<n, "mp4", k>> \in Paths
         /\ \A k \in Counters : <<n, "mp4", k>> \in Paths
BY TriesCount DEF Paths

LEMMA PathParts ==
  ASSUME NEW q \in Paths
  PROVE  /\ q[1] \in Names /\ q[2] \in {"avi", "mp4"}
         /\ q[2] = "avi" => q[3] \in 0..MaxCollision
         /\ q = <<q[1], q[2], q[3]>>
BY DEF Paths

LEMMA InitT == Init => TInv
<1> SUFFICES ASSUME Init PROVE TInv
  OBVIOUS
<1>1. TypeOK
  <2>1. short \in [Threads -> BOOLEAN] /\ ftpBusy \in BOOLEAN /\ printing \in BOOLEAN
    BY DEF Init
  <2>2. todo \in [Threads -> SUBSET Names] /\ listing \in [Threads -> SUBSET Names]
    BY DEF Init
  <2>3. batches \in 0..MaxBatches /\ crashes \in 0..MaxCrashes
    BY BatchAssumption DEF Init
  <2> QED BY <2>1, <2>2, <2>3 DEF Init, TypeOK, Outside, AllOps, Contents
<1>2. \A t \in Threads : PathInv(t)
  BY DEF Init, PathInv, Placed, Encoding
<1> QED BY <1>1, <1>2 DEF TInv

LEMMA EnvironmentT ==
  ASSUME TInv,
         \/ \E n \in Names : Record(n)
         \/ PrintStateChanges
         \/ \E u \in Users : Request(u) \/ ClaimBusy(u) \/ ListLocalAvi(u)
         \/ AutoGate \/ AutoList
         \/ Crash
  PROVE  TInv'
<1> USE DEF TInv, TypeOK, PathInv, cardVars, diskVars, itemVars, batchVars,
            boundVars, To, Outside, Inside, Placed, Encoding
<1>1. CASE \E n \in Names : Record(n)
  <2>1. TypeOK'
    BY <1>1 DEF Record
  <2>2. \A s \in Threads : PathInv(s)'
    BY <1>1 DEF Record
  <2> QED BY <2>1, <2>2
<1>2. CASE PrintStateChanges
  <2>1. TypeOK'
    BY <1>2 DEF PrintStateChanges
  <2>2. \A s \in Threads : PathInv(s)'
    BY <1>2 DEF PrintStateChanges
  <2> QED BY <2>1, <2>2
<1>3. ASSUME NEW u \in Users, Request(u) PROVE TInv'
  <2>1. TypeOK'
    BY <1>3, BatchAssumption DEF Request, Threads
  <2>2. \A s \in Threads : PathInv(s)'
    BY <1>3, BatchAssumption DEF Request, Threads
  <2> QED BY <2>1, <2>2
<1>4. ASSUME NEW u \in Users, ClaimBusy(u) PROVE TInv'
  <2>1. TypeOK'
    <3>1. ftpBusy' \in BOOLEAN
      BY <1>4 DEF ClaimBusy
    <3>2. pc' \in [Threads -> Outside \cup Inside]
      BY <1>4 DEF ClaimBusy
    <3> QED BY <1>4, <3>1, <3>2 DEF ClaimBusy
  <2>2. \A s \in Threads : PathInv(s)'
    BY <1>4 DEF ClaimBusy, Threads
  <2> QED BY <2>1, <2>2
<1>8. ASSUME NEW u \in Users, ListLocalAvi(u) PROVE TInv'
  <2>1. TypeOK'
    <3>1. listing' \in [Threads -> SUBSET Names]
      BY <1>8 DEF ListLocalAvi
    <3>2. pc' \in [Threads -> Outside \cup Inside]
      BY <1>8 DEF ListLocalAvi
    <3> QED BY <1>8, <3>1, <3>2 DEF ListLocalAvi
  <2>2. \A s \in Threads : PathInv(s)'
    BY <1>8 DEF ListLocalAvi, Threads
  <2> QED BY <2>1, <2>2
<1>5. CASE AutoGate
  <2>1. TypeOK'
    <3>1. batches' \in 0..MaxBatches
      BY <1>5, BatchAssumption DEF AutoGate
    <3> QED BY <1>5, <3>1 DEF AutoGate
  <2>2. \A s \in Threads : PathInv(s)'
    BY <1>5 DEF AutoGate, Threads
  <2> QED BY <2>1, <2>2
<1>6. CASE AutoList
  <2>1. TypeOK'
    BY <1>6, BatchAssumption DEF AutoList, AllOps, Threads
  <2>2. \A s \in Threads : PathInv(s)'
    BY <1>6, BatchAssumption DEF AutoList, AllOps, Threads
  <2> QED BY <2>1, <2>2
<1>7. CASE Crash
  <2>1. TypeOK'
    <3>1. short' \in [Threads -> BOOLEAN] /\ ftpBusy' \in BOOLEAN
      BY <1>7 DEF Crash
    <3>2. todo' \in [Threads -> SUBSET Names] /\ listing' \in [Threads -> SUBSET Names]
      BY <1>7 DEF Crash
    <3>3. crashes' \in 0..MaxCrashes
      BY <1>7, BatchAssumption DEF Crash
    <3> QED BY <1>7, <3>1, <3>2, <3>3 DEF Crash
  <2>2. \A s \in Threads : PathInv(s)'
    BY <1>7, BatchAssumption DEF Crash
  <2> QED BY <2>1, <2>2
<1> QED BY <1>1, <1>2, <1>3, <1>4, <1>5, <1>6, <1>7, <1>8

LEMMA RelinkType ==
  ASSUME TypeOK, NEW t, NEW p, NEW where \in {"file", "unlinked"}
  PROVE  Relinked(t, p, where) \in [Threads -> {"closed", "temp", "file", "unlinked"}]
BY DEF TypeOK, Relinked

\* The name a download gets.
LEMMA Chosen ==
  ASSUME TInv, NEW t \in Threads, ChooseDest(t)
  PROVE  \/ NextItem(t) \/ Abort(t)
         \/ \E p \in Paths :
              /\ p[1] = name[t] /\ (name[t] \in Avi => p[2] = "avi")
              /\ file[p] = "none"
              /\ dest' = [dest EXCEPT ![t] = p]
              /\ To(t, "create") /\ UNCHANGED <<name, out, short, fd>>
<1>1. name[t] \in Names
  BY DEF ChooseDest, TInv, PathInv
<1>2. Extension(name[t]) \in {"avi", "mp4"} /\ (name[t] \in Avi => Extension(name[t]) = "avi")
  BY DEF Extension
<1>3. \A k \in Tries(0) : <<name[t], Extension(name[t]), k>> \in Paths
  BY <1>1, <1>2, PlainTries, PathFacts
<1>4. ASSUME ~NextItem(t), ~Abort(t)
      PROVE  \E k \in Tries(0) :
               /\ file[<<name[t], Extension(name[t]), k>>] = "none"
               /\ dest' = [dest EXCEPT ![t] = <<name[t], Extension(name[t]), k>>]
               /\ To(t, "create") /\ UNCHANGED <<name, out, short, fd>>
  BY <1>4 DEF ChooseDest, First, Free
<1> QED BY <1>1, <1>2, <1>3, <1>4

\* The name an encode gets.
LEMMA Encoded ==
  ASSUME TInv, NEW t \in Threads, StartTranscode(t)
  PROVE  /\ name[t] \in Names /\ name[t] \in Avi /\ dest[t] \in Paths
         /\ dest[t] = <<name[t], "avi", dest[t][3]>> /\ dest[t][3] \in 0..MaxCollision
         /\ \E p \in Paths :
              /\ p[1] = name[t] /\ p[2] = "mp4"
              /\ out' = [out EXCEPT ![t] = p]
              /\ temp' = [temp EXCEPT ![p] = "partial"]
              /\ short' = [u \in Threads |->
                             IF u = t THEN {v \in Threads : Writes(v, p)} # {}
                             ELSE short[u] \/ u \in {v \in Threads : Writes(v, p)}]
              /\ orphans' = orphans \ {p}
              /\ May = {} =>
                   /\ file[p] = "none"
                   /\ dest[t][3] = 0 =>
                        p = <<name[t], "mp4", 0>> \/ file[<<name[t], "mp4", 0>>] # "none"
<1>1. name[t] \in Avi /\ pc[t] = "transcode"
  BY DEF StartTranscode
<1>2. name[t] \in Names /\ dest[t] \in Paths /\ dest[t][1] = name[t] /\ dest[t][2] = "avi"
  BY <1>1 DEF TInv, PathInv, Placed
<1>3. dest[t] = <<name[t], "avi", dest[t][3]>> /\ dest[t][3] \in 0..MaxCollision
  BY <1>2, PathParts
<1>4. PICK k \in Tries(dest[t][3]) :
         LET p == <<name[t], "mp4", k>>
         IN  /\ \/ First(k, Free(name[t], "mp4", dest[t][3]))
                \/ "no_names" \in May
             /\ out' = [out EXCEPT ![t] = p]
             /\ temp' = [temp EXCEPT ![p] = "partial"]
             /\ short' = [u \in Threads |->
                            IF u = t THEN {v \in Threads : Writes(v, p)} # {}
                            ELSE short[u] \/ u \in {v \in Threads : Writes(v, p)}]
             /\ orphans' = orphans \ {p}
  BY DEF StartTranscode
<1>5. <<name[t], "mp4", k>> \in Paths
  BY <1>2, <1>3, <1>4, TriesCount, PathFacts
<1>6. ASSUME May = {}
      PROVE  /\ file[<<name[t], "mp4", k>>] = "none"
             /\ dest[t][3] = 0 => k = 0 \/ file[<<name[t], "mp4", 0>>] # "none"
  <2>1. First(k, Free(name[t], "mp4", dest[t][3]))
    BY <1>4, <1>6
  <2>2. file[<<name[t], "mp4", k>>] = "none"
    BY <2>1 DEF First, Free
  <2>3. ASSUME dest[t][3] = 0, file[<<name[t], "mp4", 0>>] = "none" PROVE k = 0
    <3>1. 0 \in Free(name[t], "mp4", 0) /\ k \in 0..MaxCollision
      BY <1>4, <2>3, PlainTries, TriesCount DEF Free
    <3>2. k <= 0
      BY <2>1, <2>3, <3>1 DEF First
    <3> QED BY <3>1, <3>2
  <2> QED BY <2>2, <2>3
<1> DEFINE P == <<name[t], "mp4", k>>
<1>7. P[1] = name[t] /\ P[2] = "mp4"
  OBVIOUS
<1> QED BY <1>1, <1>2, <1>3, <1>4, <1>5, <1>6, <1>7

\* Leaving a recording, and the types.
LEMMA LeftTypes ==
  ASSUME TypeOK, NEW t \in Threads, NextItem(t) \/ Abort(t)
  PROVE  /\ pc' \in [Threads -> Outside \cup Inside]
         /\ name' \in [Threads -> Names \cup {NoName}]
         /\ dest' \in [Threads -> Paths \cup {NoPath}]
         /\ out' \in [Threads -> Paths \cup {NoPath}]
         /\ short' \in [Threads -> BOOLEAN]
         /\ fd' \in [Threads -> {"closed", "temp", "file", "unlinked"}]
<1> USE DEF TypeOK, NextItem, Abort, LeaveItem
<1>1. pc' \in [Threads -> Outside \cup Inside]
  BY DEF To, Outside, Inside
<1>2. /\ short' \in [Threads -> BOOLEAN]
      /\ fd' \in [Threads -> {"closed", "temp", "file", "unlinked"}]
  OBVIOUS
<1> QED BY <1>1, <1>2

LEMMA EraseT ==
  ASSUME TypeOK, NEW t \in Threads, Erase(t)
  PROVE  TypeOK'
<1>1. /\ NextItem(t) \/ Abort(t)
      /\ remote' \subseteq remote /\ erased' \subseteq erased \cup {name[t]}
      /\ name[t] \in remote \/ erased' = erased
      /\ UNCHANGED <<fresh, file, temp, ftpBusy, printing, op, todo, listing,
                     batches, crashes, orphans>>
  BY DEF Erase, diskVars, batchVars, boundVars
<1> QED BY <1>1, LeftTypes DEF TypeOK

LEMMA SkipT ==
  ASSUME TypeOK, NEW t \in Threads, SkipTranscode(t)
  PROVE  TypeOK'
<1>1. /\ NextItem(t)
      /\ UNCHANGED <<fresh, remote, erased, file, temp, ftpBusy, printing, op,
                     todo, listing, batches, crashes, orphans>>
  BY DEF SkipTranscode, cardVars, diskVars, batchVars, boundVars
<1> QED BY <1>1, LeftTypes DEF TypeOK

LEMMA BreaksT ==
  ASSUME TInv, NEW t \in Threads, EncodeBreaks(t)
  PROVE  TypeOK'
<1>1. TypeOK /\ out[t] \in Paths
  BY DEF EncodeBreaks, TInv, PathInv, Encoding
<1>2. /\ Abort(t) /\ orphans' = orphans \cup {out[t]}
      /\ UNCHANGED <<fresh, remote, erased, file, temp, ftpBusy, printing, op,
                     todo, listing, batches, crashes>>
  BY DEF EncodeBreaks, cardVars, diskVars, batchVars, boundVars
<1> QED BY <1>1, <1>2, LeftTypes DEF TypeOK

LEMMA VerifyT ==
  ASSUME TypeOK, NEW t \in Threads, Verify(t)
  PROVE  TypeOK'
<1>1. UNCHANGED <<fresh, remote, erased, file, temp, ftpBusy, printing, op, todo,
                  listing, batches, crashes, orphans>>
  BY DEF Verify, cardVars, diskVars, batchVars, boundVars
<1>2. \/ NextItem(t)
      \/ \E step \in {"release", "transcode"} : To(t, step) /\ UNCHANGED itemVars
  BY DEF Verify
<1>3. CASE NextItem(t)
  BY <1>1, <1>3, LeftTypes DEF TypeOK
<1>4. CASE \E step \in {"release", "transcode"} : To(t, step) /\ UNCHANGED itemVars
  BY <1>1, <1>4 DEF TypeOK, To, itemVars, Inside
<1> QED BY <1>2, <1>3, <1>4

LEMMA ReleaseT ==
  ASSUME TypeOK, NEW t \in Threads, Release(t)
  PROVE  TypeOK'
<1>1. /\ remote' \subseteq remote
      /\ UNCHANGED <<fresh, erased, file, temp, ftpBusy, printing, op, todo,
                     listing, batches, crashes, orphans>>
  BY DEF Release, diskVars, batchVars, boundVars
<1>2. \/ NextItem(t) \/ Abort(t)
      \/ To(t, "transcode") /\ UNCHANGED itemVars
  BY DEF Release
<1>3. CASE NextItem(t) \/ Abort(t)
  BY <1>1, <1>3, LeftTypes DEF TypeOK
<1>4. CASE To(t, "transcode") /\ UNCHANGED itemVars
  BY <1>1, <1>4 DEF TypeOK, To, itemVars, Inside
<1> QED BY <1>2, <1>3, <1>4

LEMMA ChooseT ==
  ASSUME TInv, NEW t \in Threads, ChooseDest(t)
  PROVE  TypeOK'
<1>1. TypeOK
  BY DEF TInv
<1>2. UNCHANGED <<fresh, remote, erased, file, temp, ftpBusy, printing, op, todo,
                  listing, batches, crashes, orphans>>
  BY DEF ChooseDest, cardVars, diskVars, batchVars, boundVars
<1>3. CASE NextItem(t) \/ Abort(t)
  BY ONLY <1>1, <1>2, <1>3, LeftTypes DEF TypeOK
<1>4. CASE ~NextItem(t) /\ ~Abort(t)
  <2>1. PICK p \in Paths :
           /\ dest' = [dest EXCEPT ![t] = p]
           /\ To(t, "create") /\ UNCHANGED <<name, out, short, fd>>
    BY <1>4, Chosen
  <2> QED BY ONLY <1>1, <1>2, <2>1 DEF TypeOK, To, Inside
<1> QED BY <1>3, <1>4

LEMMA StartT ==
  ASSUME TInv, NEW t \in Threads, StartTranscode(t)
  PROVE  TInv'
<1>0. TypeOK /\ \A s \in Threads : PathInv(s)
  BY DEF TInv
<1>1. PICK p \in Paths :
         /\ p[1] = name[t] /\ p[2] = "mp4"
         /\ out' = [out EXCEPT ![t] = p]
         /\ temp' = [temp EXCEPT ![p] = "partial"]
         /\ orphans' = orphans \ {p}
  BY ONLY TInv, StartTranscode(t), Encoded
<1>2. /\ pc' = [pc EXCEPT ![t] = "encode"] /\ pc[t] = "transcode" /\ name[t] \in Avi
      /\ fd' = [fd EXCEPT ![t] = "temp"]
      /\ UNCHANGED <<name, dest, fresh, remote, erased, file, ftpBusy, printing, op,
                     todo, listing, batches, crashes>>
  BY ONLY StartTranscode(t) DEF StartTranscode, To, cardVars, batchVars, boundVars
<1>3. TypeOK'
  <2>1. short' \in [Threads -> BOOLEAN]
    <3>1. \A S : \A u \in Threads :
            (IF u = t THEN S # {} ELSE short[u] \/ u \in S) \in BOOLEAN
      OBVIOUS
    <3>2. PICK S : short' = [u \in Threads |->
                              IF u = t THEN S # {} ELSE short[u] \/ u \in S]
      BY ONLY StartTranscode(t) DEF StartTranscode
    <3> QED BY <3>1, <3>2, Zenon
  <2>2. temp' \in [Paths -> Contents] /\ out' \in [Threads -> Paths \cup {NoPath}]
    BY <1>0, <1>1 DEF TypeOK, Contents
  <2>3. /\ pc' \in [Threads -> Outside \cup Inside]
        /\ fd' \in [Threads -> {"closed", "temp", "file", "unlinked"}]
    BY <1>0, <1>2 DEF TypeOK, Inside
  <2>4. orphans' \subseteq Paths
    BY <1>0, <1>1 DEF TypeOK
  <2> QED BY <1>0, <1>2, <2>1, <2>2, <2>3, <2>4 DEF TypeOK
<1>4. \A s \in Threads : PathInv(s)'
  <2>1. \A s \in Threads \ {t} : PathInv(s)'
    BY <1>0, <1>1, <1>2 DEF TypeOK, PathInv
  <2>2. PathInv(t)'
    BY <1>0, <1>1, <1>2 DEF TypeOK, PathInv, Placed, Encoding
  <2> QED BY <2>1, <2>2
<1> QED BY <1>3, <1>4 DEF TInv

LEMMA StepT ==
  ASSUME TInv, NEW t \in Threads, Step(t)
  PROVE  TInv'
<1> USE DEF TInv, TypeOK, PathInv, cardVars, diskVars, itemVars, batchVars,
            boundVars, To, NextItem, Abort, LeaveItem, Outside, Inside, Placed,
            Encoding
<1>1. CASE Open(t)
  <2>1. TypeOK'
    BY <1>1 DEF Open
  <2>2. \A s \in Threads : PathInv(s)'
    BY <1>1 DEF Open
  <2> QED BY <2>1, <2>2
<1>2. CASE Item(t)
  <2>1. TypeOK'
    BY <1>2 DEF Item, FirstStep, AviFiles, AllOps
  <2>2. \A s \in Threads : PathInv(s)'
    BY <1>2 DEF Item, FirstStep, AviFiles, AllOps
  <2> QED BY <2>1, <2>2
<1>3. CASE End(t)
  <2>1. TypeOK'
    BY <1>3 DEF End
  <2>2. \A s \in Threads : PathInv(s)'
    BY <1>3 DEF End
  <2> QED BY <2>1, <2>2
<1>4. CASE Erase(t)
  <2>1. TypeOK'
    BY ONLY TInv, <1>4, EraseT DEF TInv
  <2>2. \A s \in Threads : PathInv(s)'
    BY <1>4 DEF Erase
  <2> QED BY <2>1, <2>2
<1>5. CASE ChooseDest(t)
  <2>1. TypeOK'
    BY ONLY TInv, <1>5, ChooseT DEF TInv
  <2>2. \A s \in Threads : PathInv(s)'
    BY <1>5, Chosen DEF ChooseDest
  <2> QED BY <2>1, <2>2
<1>6. CASE Create(t)
  <2>1. TypeOK'
    BY <1>6 DEF Create, Contents
  <2>2. \A s \in Threads : PathInv(s)'
    BY <1>6 DEF Create, Contents
  <2> QED BY <2>1, <2>2
<1>7. CASE Transfer(t)
  <2>1. TypeOK'
    BY <1>7 DEF Transfer, Write, Contents
  <2>2. \A s \in Threads : PathInv(s)'
    BY <1>7 DEF Transfer, Write, Contents
  <2> QED BY <2>1, <2>2
<1>8. CASE Cleanup(t)
  <2>1. TypeOK'
    BY <1>8 DEF Cleanup, Relinked, Contents
  <2>2. \A s \in Threads : PathInv(s)'
    BY <1>8 DEF Cleanup, Relinked, Contents
  <2> QED BY <2>1, <2>2
<1>9. CASE Rename(t)
  <2>1. TypeOK'
    <3>1. /\ fd' \in {fd, Relinked(t, dest[t], "file")}
          /\ temp' \in {temp, [temp EXCEPT ![dest[t]] = "none"]}
          /\ file' \in {file, [file EXCEPT ![dest[t]] = temp[dest[t]]]}
          /\ orphans' \subseteq orphans
      BY <1>9 DEF Rename, Publish
    <3>2. dest[t] \in Paths
      BY <1>9 DEF Rename
    <3>3. temp' \in [Paths -> Contents] /\ file' \in [Paths -> Contents]
      BY <3>1, <3>2 DEF Contents
    <3>4. fd' \in [Threads -> {"closed", "temp", "file", "unlinked"}]
      BY <3>1, RelinkType
    <3>5. pc' \in [Threads -> Outside \cup Inside]
      BY <1>9 DEF Rename
    <3> QED BY <1>9, <3>1, <3>3, <3>4, <3>5 DEF Rename
  <2>2. \A s \in Threads : PathInv(s)'
    BY <1>9 DEF Rename, Publish, Relinked
  <2> QED BY <2>1, <2>2
<1>10. CASE Verify(t)
  <2>1. TypeOK'
    BY ONLY TInv, <1>10, VerifyT DEF TInv
  <2>2. \A s \in Threads : PathInv(s)'
    BY <1>10 DEF Verify
  <2> QED BY <2>1, <2>2
<1>11. CASE Release(t)
  <2>1. TypeOK'
    BY ONLY TInv, <1>11, ReleaseT DEF TInv
  <2>2. \A s \in Threads : PathInv(s)'
    BY <1>11 DEF Release
  <2> QED BY <2>1, <2>2
<1>12. CASE StartTranscode(t)
  BY ONLY TInv, <1>12, StartT
<1>13. CASE SkipTranscode(t)
  <2>1. TypeOK'
    BY ONLY TInv, <1>13, SkipT DEF TInv
  <2>2. \A s \in Threads : PathInv(s)'
    BY <1>13 DEF SkipTranscode
  <2> QED BY <2>1, <2>2
<1>14. CASE EncodeEnds(t)
  <2>1. TypeOK'
    BY <1>14 DEF EncodeEnds, Write, Contents
  <2>2. \A s \in Threads : PathInv(s)'
    BY <1>14 DEF EncodeEnds, Write, Contents
  <2> QED BY <2>1, <2>2
<1>15. CASE PublishMp4(t)
  <2>1. TypeOK'
    <3>1. /\ fd' \in {fd, Relinked(t, out[t], "file")}
          /\ temp' \in {temp, [temp EXCEPT ![out[t]] = "none"]}
          /\ file' \in {file, [file EXCEPT ![out[t]] = temp[out[t]]]}
          /\ orphans' \subseteq orphans
      BY <1>15 DEF PublishMp4, Publish
    <3>2. out[t] \in Paths
      BY <1>15 DEF PublishMp4
    <3>3. temp' \in [Paths -> Contents] /\ file' \in [Paths -> Contents]
      BY <3>1, <3>2 DEF Contents
    <3>4. fd' \in [Threads -> {"closed", "temp", "file", "unlinked"}]
      BY <3>1, RelinkType
    <3>5. pc' \in [Threads -> Outside \cup Inside]
      BY <1>15 DEF PublishMp4
    <3> QED BY <1>15, <3>1, <3>3, <3>4, <3>5 DEF PublishMp4
  <2>2. \A s \in Threads : PathInv(s)'
    BY <1>15 DEF PublishMp4, Publish, Relinked
  <2> QED BY <2>1, <2>2
<1>16. CASE Discard(t)
  <2>1. TypeOK'
    BY <1>16 DEF Discard, Relinked, Contents
  <2>2. \A s \in Threads : PathInv(s)'
    BY <1>16 DEF Discard, Relinked, Contents
  <2> QED BY <2>1, <2>2
<1>17. CASE Unlink(t)
  <2>1. TypeOK'
    BY <1>17 DEF Unlink, Contents
  <2>2. \A s \in Threads : PathInv(s)'
    BY <1>17 DEF Unlink, Contents
  <2> QED BY <2>1, <2>2
<1>18. CASE EncodeBreaks(t)
  <2>1. TypeOK'
    BY ONLY TInv, <1>18, BreaksT DEF TInv
  <2>2. \A s \in Threads : PathInv(s)'
    BY <1>18 DEF EncodeBreaks
  <2> QED BY <2>1, <2>2
<1> QED
  BY <1>1, <1>2, <1>3, <1>4, <1>5, <1>6, <1>7, <1>8, <1>9, <1>10, <1>11, <1>12,
     <1>13, <1>14, <1>15, <1>16, <1>17, <1>18 DEF Step

LEMMA NextT == TInv /\ [Next]_vars => TInv'
<1> SUFFICES ASSUME TInv, [Next]_vars PROVE TInv'
  OBVIOUS
<1>1. CASE UNCHANGED vars
  <2>1. TypeOK'
    BY <1>1 DEF vars, TInv, TypeOK, cardVars, diskVars, itemVars, batchVars,
                boundVars
  <2>2. \A s \in Threads : PathInv(s)'
    BY <1>1 DEF vars, TInv, PathInv, batchVars, itemVars
  <2> QED BY <2>1, <2>2 DEF TInv
<1>2. CASE \E t \in Threads : Step(t)
  BY <1>2, StepT
<1> QED BY <1>1, <1>2, EnvironmentT DEF Next

\* Whatever fails, crashes and overlaps, every variable keeps its type.
THEOREM BatchTypes == Spec => []TypeOK
<1>1. TInv => TypeOK
  BY DEF TInv
<1> QED BY <1>1, InitT, NextT, PTL DEF Spec
----------------------------------------------------------------------------
(* One batch at a time. *)

IInv ==
  /\ TInv
  /\ OneBatch
  /\ \A t \in Threads : FdInv(t) /\ ContentInv(t)

LEMMA InitI == Init => IInv
<1> SUFFICES ASSUME Init PROVE IInv
  OBVIOUS
<1>1. OneBatch
  BY DEF Init, OneBatch, Inside, Threads
<1>2. \A t \in Threads : FdInv(t) /\ ContentInv(t)
  BY DEF Init, FdInv, ContentInv
<1> QED BY <1>1, <1>2, InitT DEF IInv

\* A thread that has a batch is the only one that moves files.
LEMMA Others ==
  ASSUME OneBatch, NEW t \in Threads, pc[t] \in Inside
  PROVE  \A u \in Threads \ {t} : pc[u] \notin Inside
BY DEF OneBatch

LEMMA Alone ==
  ASSUME IInv, NEW t \in Threads, pc[t] \in Inside, NEW p, NEW where
  PROVE  /\ Relinked(t, p, where) = fd
         /\ pc[t] \notin {"transfer", "encode"} => {u \in Threads : Writes(u, p)} = {}
<1>1. \A u \in Threads \ {t} : fd[u] = "closed"
  BY Others DEF IInv, FdInv, Inside
<1>2. fd = [u \in Threads |-> fd[u]]
  BY DEF IInv, TInv, TypeOK
<1>3. \A u \in Threads :
        (IF u = t \/ ~Writes(u, p) THEN fd[u]
         ELSE IF fd[u] = "temp" THEN where
         ELSE IF fd[u] = "file" /\ where = "file" THEN "unlinked"
         ELSE fd[u]) = fd[u]
  BY <1>1 DEF Writes
<1>4. Relinked(t, p, where) = fd
  BY <1>2, <1>3 DEF Relinked
<1>5. ASSUME pc[t] \notin {"transfer", "encode"} PROVE fd[t] = "closed"
  BY <1>5 DEF IInv, FdInv
<1> QED BY <1>1, <1>4, <1>5 DEF Writes

LEMMA Moves ==
  ASSUME TInv, NEW t \in Threads, Step(t)
  PROVE  /\ pc[t] \in Inside
         /\ pc' = [pc EXCEPT ![t] = pc'[t]]
         /\ ftpBusy' = ftpBusy \/ pc'[t] = "idle"
<1> USE DEF TInv, TypeOK, To, NextItem, Abort, Inside
<1>1. CASE Open(t)
  BY <1>1 DEF Open
<1>2. CASE Item(t)
  BY <1>2 DEF Item, FirstStep
<1>3. CASE End(t)
  BY <1>3 DEF End
<1>4. CASE Erase(t)
  BY <1>4 DEF Erase
<1>5. CASE ChooseDest(t)
  BY <1>5 DEF ChooseDest
<1>6. CASE Create(t)
  BY <1>6 DEF Create
<1>7. CASE Transfer(t)
  BY <1>7 DEF Transfer
<1>8. CASE Cleanup(t)
  BY <1>8 DEF Cleanup
<1>9. CASE Rename(t)
  BY <1>9 DEF Rename
<1>10. CASE Verify(t)
  BY <1>10 DEF Verify
<1>11. CASE Release(t)
  BY <1>11 DEF Release
<1>12. CASE StartTranscode(t)
  BY <1>12 DEF StartTranscode
<1>13. CASE SkipTranscode(t)
  BY <1>13 DEF SkipTranscode
<1>14. CASE EncodeEnds(t)
  BY <1>14 DEF EncodeEnds
<1>15. CASE PublishMp4(t)
  BY <1>15 DEF PublishMp4
<1>16. CASE Discard(t)
  BY <1>16 DEF Discard
<1>17. CASE Unlink(t)
  BY <1>17 DEF Unlink
<1>18. CASE EncodeBreaks(t)
  BY <1>18 DEF EncodeBreaks
<1> QED
  BY <1>1, <1>2, <1>3, <1>4, <1>5, <1>6, <1>7, <1>8, <1>9, <1>10, <1>11, <1>12,
     <1>13, <1>14, <1>15, <1>16, <1>17, <1>18 DEF Step

LEMMA OthersKeep ==
  ASSUME TInv, OneBatch, NEW t \in Threads, Step(t)
  PROVE  \A u \in Threads \ {t} : pc'[u] = pc[u] /\ pc[u] \notin Inside
<1>1. pc[t] \in Inside /\ pc' = [pc EXCEPT ![t] = pc'[t]]
  BY Moves
<1>2. \A u \in Threads \ {t} : pc'[u] = pc[u]
  BY <1>1 DEF TInv, TypeOK
<1> QED BY <1>1, <1>2, Others

LEMMA OneBatchStep ==
  ASSUME May = {}, IInv, [Next]_vars
  PROVE  OneBatch'
<1>0. TInv /\ OneBatch
  BY DEF IInv
<1> USE DEF To
<1>1. ASSUME NEW t \in Threads, Step(t) PROVE OneBatch'
  <2>1. /\ pc' = [pc EXCEPT ![t] = pc'[t]]
        /\ ftpBusy' = ftpBusy \/ pc'[t] = "idle"
    BY <1>0, <1>1, Moves
  <2>2. \A u \in Threads \ {t} : pc'[u] = pc[u] /\ pc[u] \notin Inside
    BY <1>0, <1>1, OthersKeep
  <2>3. t \in Users /\ ftpBusy' = ftpBusy => ftpBusy'
    BY <1>0, <1>1, Moves DEF OneBatch
  <2> QED BY <1>0, <2>1, <2>2, <2>3 DEF OneBatch, Threads, Inside
<1>2. ASSUME NEW u \in Users, Request(u) PROVE OneBatch'
  BY <1>0, <1>2 DEF TInv, TypeOK, Inside, Request, OneBatch, Threads
<1>3. ASSUME NEW u \in Users, ClaimBusy(u) PROVE OneBatch'
  <2>1. CASE ftpBusy
    BY <1>0, <1>3, <2>1 DEF TInv, TypeOK, Inside, ClaimBusy, OneBatch, Threads
  <2>2. CASE ~ftpBusy
    <3>1. \A t \in Threads : pc[t] \notin Inside
      BY <1>0, <1>3, <2>2 DEF TInv, TypeOK, Inside, ClaimBusy, OneBatch, Threads
    <3>2. ftpBusy' /\ \A t \in Threads \ {u} : pc'[t] = pc[t]
      BY <1>0, <1>3, <2>2 DEF TInv, TypeOK, Inside, ClaimBusy
    <3> QED BY <3>1, <3>2 DEF OneBatch, Threads
  <2> QED BY <2>1, <2>2
<1>8. ASSUME NEW u \in Users, ListLocalAvi(u) PROVE OneBatch'
  <2>1. /\ pc[u] \in Inside /\ ftpBusy' = ftpBusy
        /\ pc' = [pc EXCEPT ![u] = pc'[u]]
    BY <1>0, <1>8 DEF TInv, TypeOK, Inside, ListLocalAvi
  <2> QED BY <1>0, <2>1, Others DEF TInv, TypeOK, OneBatch, Threads
<1>4. CASE AutoGate
  <2>1. \A t \in Threads : pc[t] \notin Inside
    BY <1>0, <1>4 DEF TInv, TypeOK, Inside, AutoGate, OneBatch, Threads
  <2> QED BY <1>0, <1>4, <2>1, BatchAssumption
             DEF TInv, TypeOK, Inside, AutoGate, OneBatch, Threads
<1>5. CASE AutoList
  BY <1>0, <1>5, BatchAssumption DEF TInv, TypeOK, Inside, AutoList, OneBatch,
                                     Threads
<1>6. CASE Crash
  BY <1>0, <1>6 DEF TInv, TypeOK, Inside, Crash, OneBatch, Threads
<1>7. CASE (\E n \in Names : Record(n)) \/ PrintStateChanges \/ UNCHANGED vars
  BY <1>0, <1>7 DEF TInv, TypeOK, Inside, Record, PrintStateChanges, vars, OneBatch
<1> QED BY <1>1, <1>2, <1>3, <1>4, <1>5, <1>6, <1>7, <1>8 DEF Next
----------------------------------------------------------------------------
(* The files of the one batch. *)

LEMMA FdStep ==
  ASSUME IInv, NEW t \in Threads, Step(t)
  PROVE  \A u \in Threads : FdInv(u)'
<1> USE DEF FdInv, To, NextItem, Abort, LeaveItem, itemVars
<1>0. /\ fd \in [Threads -> {"closed", "temp", "file", "unlinked"}]
      /\ pc \in [Threads -> Outside \cup Inside]
      /\ \A u \in Threads : FdInv(u)
      /\ op[t] \in AllOps /\ pc[t] \in Inside
      /\ \A p, where : Relinked(t, p, where) = fd
  BY Moves, Alone DEF IInv, TInv, TypeOK
<1>1. CASE Open(t)
  BY <1>0, <1>1 DEF Open
<1>2. CASE Item(t)
  BY <1>0, <1>2 DEF Item, FirstStep, AllOps
<1>3. CASE End(t)
  BY <1>0, <1>3 DEF End
<1>4. CASE Erase(t)
  BY <1>0, <1>4 DEF Erase
<1>5. CASE ChooseDest(t)
  BY <1>0, <1>5 DEF ChooseDest
<1>6. CASE Create(t)
  BY <1>0, <1>6 DEF Create
<1>7. CASE Transfer(t)
  BY <1>0, <1>7 DEF Transfer
<1>8. CASE Cleanup(t)
  BY <1>0, <1>8 DEF Cleanup
<1>9. CASE Rename(t)
  BY <1>0, <1>9 DEF Rename, Publish
<1>10. CASE Verify(t)
  BY <1>0, <1>10 DEF Verify
<1>11. CASE Release(t)
  BY <1>0, <1>11 DEF Release
<1>12. CASE StartTranscode(t)
  BY <1>0, <1>12 DEF StartTranscode
<1>13. CASE SkipTranscode(t)
  BY <1>0, <1>13 DEF SkipTranscode
<1>14. CASE EncodeEnds(t)
  BY <1>0, <1>14 DEF EncodeEnds
<1>15. CASE PublishMp4(t)
  BY <1>0, <1>15 DEF PublishMp4, Publish
<1>16. CASE Discard(t)
  BY <1>0, <1>16 DEF Discard
<1>17. CASE Unlink(t)
  BY <1>0, <1>17 DEF Unlink
<1>18. CASE EncodeBreaks(t)
  BY <1>0, <1>18 DEF EncodeBreaks
<1> QED
  BY <1>1, <1>2, <1>3, <1>4, <1>5, <1>6, <1>7, <1>8, <1>9, <1>10, <1>11, <1>12,
     <1>13, <1>14, <1>15, <1>16, <1>17, <1>18 DEF Step

LEMMA ContentStep ==
  ASSUME May = {}, IInv, NEW t \in Threads, Step(t)
  PROVE  ContentInv(t)'
<1> USE DEF ContentInv, To, NextItem, Abort, LeaveItem, itemVars, diskVars, cardVars
<1>0. /\ TInv /\ TypeOK /\ PathInv(t) /\ ContentInv(t) /\ FdInv(t)
      /\ pc[t] \in Inside
      /\ \A p, where : Relinked(t, p, where) = fd
      /\ \A p : pc[t] \notin {"transfer", "encode"} => {u \in Threads : Writes(u, p)} = {}
  BY Moves, Alone DEF IInv, TInv
<1>1. CASE Open(t)
  BY <1>0, <1>1 DEF Open, TypeOK, PathInv, Placed, Encoding
<1>2. CASE Item(t)
  <2>1. CASE pc' = pc
    BY <1>2, <2>1 DEF Item
  <2>2. CASE pc' # pc
    <3>1. /\ pc'[t] = FirstStep[op[t]] /\ op[t] \in AllOps /\ file' = file
          /\ op[t] = "convert" =>
               \E n : \E p \in AviFiles(n) : dest' = [dest EXCEPT ![t] = p]
      BY <1>0, <1>2, <2>2 DEF Item, TypeOK
    <3>2. pc'[t] \in {"dest", "erase"} \/ (pc'[t] = "transcode" /\ op[t] = "convert")
      BY <3>1 DEF FirstStep, AllOps
    <3>3. CASE op[t] = "convert"
      BY <1>0, <3>1, <3>2, <3>3 DEF AviFiles, TypeOK
    <3> QED BY <3>2, <3>3
  <2> QED BY <2>1, <2>2
<1>3. CASE End(t)
  BY <1>0, <1>3 DEF End, TypeOK, PathInv, Placed, Encoding
<1>4. CASE Erase(t)
  BY <1>0, <1>4 DEF Erase, TypeOK, PathInv, Placed, Encoding
<1>5. CASE ChooseDest(t)
  <2>1. CASE NextItem(t) \/ Abort(t)
    BY <1>0, <1>5, <2>1 DEF ChooseDest, TypeOK
  <2>2. ASSUME NEW p \in Paths, file[p] = "none",
               dest' = [dest EXCEPT ![t] = p], To(t, "create")
        PROVE  ContentInv(t)'
    BY <1>0, <1>5, <2>2 DEF ChooseDest, TypeOK
  <2> QED BY <1>0, <1>5, <2>1, <2>2, Chosen
<1>6. CASE Create(t)
  BY <1>0, <1>6 DEF Create, TypeOK, PathInv, Placed, Encoding
<1>7. CASE Transfer(t)
  BY <1>0, <1>7 DEF Transfer, TypeOK, PathInv, Placed, Encoding, FdInv, Write
<1>8. CASE Cleanup(t)
  BY <1>0, <1>8 DEF Cleanup, TypeOK, PathInv, Placed, Encoding
<1>9. CASE Rename(t)
  BY <1>0, <1>9 DEF Rename, TypeOK, PathInv, Placed, Encoding, Publish
<1>10. CASE Verify(t)
  BY <1>0, <1>10 DEF Verify, TypeOK, PathInv, Placed, Encoding
<1>11. CASE Release(t)
  BY <1>0, <1>11 DEF Release, TypeOK, PathInv, Placed, Encoding
<1>12. CASE StartTranscode(t)
  <2>1. pc[t] = "transcode" /\ file[dest[t]] # "none" /\ file' = file
        /\ pc'[t] = "encode" /\ dest' = dest
    BY <1>0, <1>12 DEF StartTranscode, TypeOK
  <2>2. PICK p \in Paths :
           /\ out' = [out EXCEPT ![t] = p] /\ file[p] = "none"
           /\ short' = [u \in Threads |->
                          IF u = t THEN {v \in Threads : Writes(v, p)} # {}
                          ELSE short[u] \/ u \in {v \in Threads : Writes(v, p)}]
    BY <1>0, <1>12, Encoded
  <2>3. out'[t] = p
    BY <1>0, <2>2 DEF TypeOK
  <2>4. {u \in Threads : Writes(u, p)} = {}
    BY <1>0, <2>1
  <2>5. ~short'[t]
    BY <2>2, <2>4
  <2> QED BY <2>1, <2>2, <2>3, <2>5
<1>13. CASE SkipTranscode(t)
  BY <1>0, <1>13 DEF SkipTranscode, TypeOK, PathInv, Placed, Encoding
<1>14. CASE EncodeEnds(t)
  BY <1>0, <1>14 DEF EncodeEnds, TypeOK, PathInv, Placed, Encoding, FdInv, Write
<1>15. CASE PublishMp4(t)
  BY <1>0, <1>15 DEF PublishMp4, TypeOK, PathInv, Placed, Encoding, Publish
<1>16. CASE Discard(t)
  BY <1>0, <1>16 DEF Discard, TypeOK, PathInv, Placed, Encoding
<1>17. CASE Unlink(t)
  BY <1>0, <1>17 DEF Unlink, TypeOK, PathInv, Placed, Encoding
<1>18. CASE EncodeBreaks(t)
  BY <1>0, <1>18 DEF EncodeBreaks, TypeOK, PathInv, Placed, Encoding
<1> QED
  BY <1>1, <1>2, <1>3, <1>4, <1>5, <1>6, <1>7, <1>8, <1>9, <1>10, <1>11, <1>12,
     <1>13, <1>14, <1>15, <1>16, <1>17, <1>18 DEF Step

LEMMA NextI ==
  ASSUME May = {}, IInv, [Next]_vars
  PROVE  IInv'
<1>1. TInv' /\ OneBatch'
  BY NextT, OneBatchStep DEF IInv
<1>2. ASSUME NEW t \in Threads, Step(t)
      PROVE  \A u \in Threads : FdInv(u)' /\ ContentInv(u)'
  <2>1. \A u \in Threads \ {t} : pc'[u] = pc[u] /\ pc[u] \notin Inside
    BY <1>2, OthersKeep DEF IInv
  <2>2. \A u \in Threads \ {t} : ContentInv(u)'
    BY <2>1 DEF ContentInv, Inside
  <2> QED BY <1>2, <2>2, FdStep, ContentStep
<1>3. ASSUME ~\E t \in Threads : Step(t)
      PROVE  \A u \in Threads : FdInv(u)' /\ ContentInv(u)'
  <2> USE DEF IInv, TInv, TypeOK, FdInv, ContentInv, To, itemVars, diskVars,
          cardVars
  <2>1. ASSUME NEW v \in Users, Request(v) \/ ClaimBusy(v) \/ ListLocalAvi(v)
        PROVE  \A u \in Threads : FdInv(u)' /\ ContentInv(u)'
    BY <2>1 DEF Request, ClaimBusy, ListLocalAvi
  <2>2. CASE AutoGate \/ AutoList
    BY <2>2 DEF AutoGate, AutoList
  <2>3. CASE Crash
    BY <2>3 DEF Crash
  <2>4. CASE (\E n \in Names : Record(n)) \/ PrintStateChanges \/ UNCHANGED vars
    BY <2>4 DEF Record, PrintStateChanges, vars
  <2> QED BY <1>3, <2>1, <2>2, <2>3, <2>4 DEF Next
<1> QED BY <1>1, <1>2, <1>3 DEF IInv
----------------------------------------------------------------------------
(* Custody. *)

\* A step that leaves the card, and puts nothing over a whole file that is not
\* there whole under another name, is a stutter.
LEMMA SameDisk ==
  ASSUME file' = file PROVE OnDisk' = OnDisk
BY DEF OnDisk

LEMMA WritesPart ==
  ASSUME NEW t \in Threads, FdInv(t), pc[t] \in {"transfer", "encode"},
         NEW p, NEW c, Write(t, p, c)
  PROVE  file' = file
BY DEF FdInv, Write

LEMMA RenameKept ==
  ASSUME IInv, NEW t \in Threads, Rename(t)
  PROVE  OnDisk' = OnDisk \/ (name[t] \in remote /\ OnDisk' = OnDisk \cup {name[t]})
<1>1. CASE file' = file
  BY <1>1, SameDisk
<1>2. CASE file' # file
  <2>1. /\ file' = [file EXCEPT ![dest[t]] = temp[dest[t]]]
        /\ dest[t] \in Paths /\ dest[t][1] = name[t] /\ name[t] \in Names
        /\ file[dest[t]] = "none" /\ name[t] \in remote
        /\ temp[dest[t]] \in {"partial", "full"}
    BY <1>2 DEF Rename, Publish, IInv, TInv, PathInv, ContentInv, Placed, diskVars
  <2>2. \A p \in Paths : file'[p] = IF p = dest[t] THEN temp[dest[t]] ELSE file[p]
    BY <2>1 DEF IInv, TInv, TypeOK
  <2>3. CASE temp[dest[t]] = "full"
    BY <2>1, <2>2, <2>3 DEF OnDisk
  <2>4. CASE temp[dest[t]] = "partial"
    BY <2>1, <2>2, <2>4 DEF OnDisk
  <2> QED BY <2>1, <2>3, <2>4
<1> QED BY <1>1, <1>2

LEMMA PublishKept ==
  ASSUME IInv, NEW t \in Threads, PublishMp4(t)
  PROVE  OnDisk' = OnDisk
<1>1. CASE file' = file
  BY <1>1, SameDisk
<1>2. CASE file' # file
  <2>1. /\ file' = [file EXCEPT ![out[t]] = temp[out[t]]]
        /\ out[t] \in Paths /\ out[t][1] = name[t] /\ name[t] \in Names
        /\ dest[t] \in Paths /\ dest[t][1] = name[t]
        /\ file[out[t]] = "none" /\ temp[out[t]] = file[dest[t]]
    BY <1>2 DEF PublishMp4, Publish, IInv, TInv, PathInv, ContentInv, Placed,
                Encoding, diskVars
  <2>2. \A p \in Paths : file'[p] = IF p = out[t] THEN file[dest[t]] ELSE file[p]
    BY <2>1 DEF IInv, TInv, TypeOK
  <2> QED BY <2>1, <2>2 DEF OnDisk
<1> QED BY <1>1, <1>2

LEMMA UnlinkKept ==
  ASSUME IInv, NEW t \in Threads, Unlink(t)
  PROVE  OnDisk' = OnDisk
<1>1. CASE file' = file
  BY <1>1, SameDisk
<1>2. CASE file' # file
  <2>1. /\ file' = [file EXCEPT ![dest[t]] = "none"]
        /\ out[t] \in Paths /\ out[t][1] = name[t] /\ out[t][2] = "mp4"
        /\ dest[t] \in Paths /\ dest[t][1] = name[t] /\ dest[t][2] = "avi"
        /\ file[out[t]] = file[dest[t]]
    BY <1>2 DEF Unlink, IInv, TInv, PathInv, ContentInv, Placed, Encoding
  <2>2. \A p \in Paths : file'[p] = IF p = dest[t] THEN "none" ELSE file[p]
    BY <2>1 DEF IInv, TInv, TypeOK
  <2> QED BY <2>1, <2>2 DEF OnDisk
<1> QED BY <1>1, <1>2

LEMMA ReleaseKept ==
  ASSUME IInv, NEW t \in Threads, Release(t), remote' # remote
  PROVE  /\ name[t] \in remote /\ name[t] \in OnDisk
         /\ remote' = remote \ {name[t]}
BY DEF Release, IInv, TInv, PathInv, ContentInv, Placed, OnDisk

\* A step of a batch is a step of Custody or leaves its state alone.
LEMMA StepKept ==
  ASSUME May = {}, IInv, [Next]_vars
  PROVE  [Kept!Next]_<<fresh, remote, OnDisk, erased>>
<1> USE SameDisk DEF cardVars, diskVars
<1>1. ASSUME NEW n \in Names, Record(n) PROVE Kept!Next
  BY <1>1 DEF Record, Kept!Next, Kept!Make
<1>2. ASSUME NEW t \in Threads, Erase(t)
      PROVE  Kept!Next \/ UNCHANGED <<fresh, remote, OnDisk, erased>>
  <2>1. name[t] \in Names
    BY <1>2 DEF Erase, IInv, TInv, PathInv
  <2> QED BY <1>2, <2>1 DEF Erase, Kept!Next, Kept!Erase
<1>3. ASSUME NEW t \in Threads, Rename(t)
      PROVE  Kept!Next \/ UNCHANGED <<fresh, remote, OnDisk, erased>>
  <2>1. name[t] \in Names
    BY <1>3 DEF Rename, IInv, TInv, PathInv, Placed
  <2> QED BY <1>3, <2>1, RenameKept DEF Rename, Kept!Next, Kept!Copy
<1>4. ASSUME NEW t \in Threads, Release(t)
      PROVE  Kept!Next \/ UNCHANGED <<fresh, remote, OnDisk, erased>>
  <2>1. name[t] \in Names
    BY <1>4 DEF Release, IInv, TInv, PathInv, Placed
  <2> QED BY <1>4, <2>1, ReleaseKept DEF Release, Kept!Next, Kept!Release
<1>5. ASSUME NEW t \in Threads, PublishMp4(t) \/ Unlink(t)
      PROVE  UNCHANGED <<fresh, remote, OnDisk, erased>>
  BY <1>5, PublishKept, UnlinkKept DEF PublishMp4, Unlink
<1>6. ASSUME NEW t \in Threads, Transfer(t) \/ EncodeEnds(t)
      PROVE  UNCHANGED <<fresh, remote, OnDisk, erased>>
  <2>1. FdInv(t)
    BY DEF IInv
  <2> QED BY <1>6, <2>1, WritesPart DEF Transfer, EncodeEnds
<1>7. ASSUME NEW t \in Threads,
             \/ Open(t) \/ Item(t) \/ End(t) \/ ChooseDest(t) \/ Create(t)
             \/ Cleanup(t) \/ Verify(t) \/ StartTranscode(t) \/ SkipTranscode(t)
             \/ Discard(t) \/ EncodeBreaks(t)
      PROVE  UNCHANGED <<fresh, remote, OnDisk, erased>>
  BY <1>7 DEF Open, Item, End, ChooseDest, Create, Cleanup, Verify,
              StartTranscode, SkipTranscode, Discard, EncodeBreaks
<1>8. ASSUME \/ PrintStateChanges \/ AutoGate \/ AutoList \/ Crash
             \/ (\E u \in Users : Request(u) \/ ClaimBusy(u) \/ ListLocalAvi(u))
             \/ UNCHANGED vars
      PROVE  UNCHANGED <<fresh, remote, OnDisk, erased>>
  BY <1>8 DEF PrintStateChanges, AutoGate, AutoList, Crash, Request, ClaimBusy,
              ListLocalAvi, vars
<1> QED BY <1>1, <1>2, <1>3, <1>4, <1>5, <1>6, <1>7, <1>8 DEF Next, Step

\* What Custody keeps: a recording has a place until its user deletes it.
LEMMA KeptNoLoss ==
  ASSUME NoLoss, [Kept!Next]_<<fresh, remote, OnDisk, erased>>
  PROVE  NoLoss'
BY DEF NoLoss, Kept!Next, Kept!Make, Kept!Copy, Kept!Release, Kept!Erase

LEMMA InitKept == Init => Kept!Init /\ NoLoss
BY DEF Init, Kept!Init, OnDisk, NoLoss

\* The batches implement Custody.
THEOREM BatchesKeepCustody ==
  ASSUME May = {} PROVE Spec => CustodyKept
<1>1. IInv /\ [Next]_vars => IInv'
  BY NextI
<1>2. IInv /\ [Next]_vars => [Kept!Next]_<<fresh, remote, OnDisk, erased>>
  BY StepKept
<1> QED BY <1>1, <1>2, InitI, InitKept, PTL DEF Spec, CustodyKept, Kept!Spec

\* No recording is lost, by a move, a conversion, a failure or a crash.
THEOREM NothingLost ==
  ASSUME May = {} PROVE Spec => []NoLoss
<1>1. IInv /\ [Next]_vars => IInv'
  BY NextI
<1>2. IInv /\ NoLoss /\ [Next]_vars => NoLoss'
  BY StepKept, KeptNoLoss
<1> QED BY <1>1, <1>2, InitI, InitKept, PTL DEF Spec
----------------------------------------------------------------------------
(* No .part is left behind. *)

\* The .part files of a thread, by where it is.
Has(t, p) ==
  \/ pc[t] \in {"transfer", "cleanup", "abort", "rename"} /\ p = dest[t]
  \/ pc[t] \in {"encode", "discard", "publish"} /\ p = out[t]

Tidy == \A p \in Paths : temp[p] = "none" \/ p \in orphans \/ \E t \in Threads : Has(t, p)

LEMMA TidyStep ==
  ASSUME IInv, Tidy, NEW t \in Threads, Step(t)
  PROVE  Tidy'
<1> USE DEF To, NextItem, Abort, LeaveItem, itemVars, diskVars, cardVars, Has
<1>0. /\ TypeOK /\ PathInv(t) /\ FdInv(t) /\ pc[t] \in Inside
      /\ \A u \in Threads \ {t} : pc[u] \notin Inside
  BY Moves, Others DEF IInv, TInv
<1> SUFFICES ASSUME NEW p \in Paths, temp'[p] # "none", p \notin orphans'
             PROVE  Has(t, p)'
  BY DEF Tidy
<1>01. temp[p] = "none" \/ p \in orphans \/ Has(t, p)
  BY <1>0 DEF Tidy, Inside
<1>1. CASE Open(t) \/ Item(t) \/ End(t)
  BY <1>0, <1>01, <1>1 DEF Open, Item, End, TypeOK
<1>2. CASE Erase(t) \/ ChooseDest(t) \/ Verify(t) \/ Release(t)
  BY <1>0, <1>01, <1>2 DEF Erase, ChooseDest, Verify, Release, TypeOK
<1>3. CASE Create(t)
  BY <1>0, <1>01, <1>3 DEF Create, TypeOK
<1>4. CASE Transfer(t)
  BY <1>0, <1>01, <1>4 DEF Transfer, Write, FdInv, PathInv, Placed, TypeOK
<1>5. CASE Cleanup(t)
  BY <1>0, <1>01, <1>5 DEF Cleanup, PathInv, Placed, TypeOK
<1>6. CASE Rename(t)
  BY <1>0, <1>01, <1>6 DEF Rename, Publish, PathInv, Placed, TypeOK
<1>7. CASE StartTranscode(t)
  BY <1>0, <1>01, <1>7 DEF StartTranscode, PathInv, Placed, TypeOK
<1>8. CASE SkipTranscode(t) \/ Unlink(t)
  BY <1>0, <1>01, <1>8 DEF SkipTranscode, Unlink, TypeOK
<1>9. CASE EncodeEnds(t)
  BY <1>0, <1>01, <1>9 DEF EncodeEnds, Write, FdInv, PathInv, Encoding, TypeOK
<1>10. CASE PublishMp4(t)
  BY <1>0, <1>01, <1>10 DEF PublishMp4, Publish, PathInv, Encoding, TypeOK
<1>11. CASE Discard(t)
  BY <1>0, <1>01, <1>11 DEF Discard, PathInv, Encoding, TypeOK
<1>12. CASE EncodeBreaks(t)
  BY <1>0, <1>01, <1>12 DEF EncodeBreaks, TypeOK
<1> QED
  BY <1>1, <1>2, <1>3, <1>4, <1>5, <1>6, <1>7, <1>8, <1>9, <1>10, <1>11,
     <1>12 DEF Step

LEMMA TidyNext ==
  ASSUME IInv, Tidy, [Next]_vars
  PROVE  Tidy'
<1> USE DEF Tidy, Has, To, IInv, TInv, TypeOK, itemVars, diskVars, batchVars
<1>1. CASE \E t \in Threads : Step(t)
  BY <1>1, TidyStep
<1>2. ASSUME NEW u \in Users, Request(u) \/ ClaimBusy(u) \/ ListLocalAvi(u) PROVE Tidy'
  BY <1>2 DEF Request, ClaimBusy, ListLocalAvi
<1>3. CASE AutoGate \/ AutoList
  BY <1>3 DEF AutoGate, AutoList
<1>4. CASE Crash
  BY <1>4 DEF Crash
<1>5. CASE (\E n \in Names : Record(n)) \/ PrintStateChanges \/ UNCHANGED vars
  BY <1>5 DEF Record, PrintStateChanges, vars
<1> QED BY <1>1, <1>2, <1>3, <1>4, <1>5 DEF Next

\* A batch leaves no .part behind, whatever fails on the card, on the way, on
\* the disk and in ffmpeg: what lies there is of a dead process, or of an encode
\* left by an error transcode() does not expect.
THEOREM TidyBatches ==
  ASSUME May = {} PROVE Spec => []NoStrayTemps
<1>1. Init => Tidy
  BY DEF Init, Tidy
<1>2. IInv /\ [Next]_vars => IInv'
  BY NextI
<1>3. IInv /\ Tidy /\ [Next]_vars => Tidy'
  BY TidyNext
<1>4. Tidy => NoStrayTemps
  BY DEF Tidy, NoStrayTemps, Has, Inside
<1> QED BY <1>1, <1>2, <1>3, <1>4, InitI, PTL DEF Spec
----------------------------------------------------------------------------
(* The automatic pull fetches nothing twice. *)

NoFile(n) == \A p \in Paths : p[1] = n => file[p] = "none"

\* A recording has a file without a counter that is not the .avi t converts.
Spared(t) ==
  \/ file[<<name[t], "mp4", 0>>] # "none"
  \/ file[<<name[t], "avi", 0>>] # "none" /\ dest[t] # <<name[t], "avi", 0>>

\* A recording with a file has one under a name without a counter, and whoever
\* takes a name with a counter found the other one taken.
CopyInv ==
  /\ \A n \in Names : NoFile(n) \/ AlreadyCopied(n)
  /\ \A t \in Threads :
       /\ pc[t] \in {"create", "transfer", "rename"} =>
            dest[t] = <<name[t], Extension(name[t]), 0>> \/ AlreadyCopied(name[t])
       /\ pc[t] \in {"encode", "publish"} => out[t] = <<name[t], "mp4", 0>> \/ Spared(t)
       /\ pc[t] = "unlink" => Spared(t)

\* What the automatic batch has still to fetch is not there.
AutoInv ==
  /\ pc[Autosync] \in Inside \ {"list"} => \A n \in todo[Autosync] : NoFile(n)
  /\ pc[Autosync] \in {"dest", "create", "transfer"} => NoFile(name[Autosync])
  /\ pc[Autosync] \in Placed \cup {"dest"} => name[Autosync] \notin todo[Autosync]

LEMMA Uncounted ==
  ASSUME NEW n \in Names, NEW e \in {"avi", "mp4"}
  PROVE  /\ <<n, e, 0>> \in Paths /\ <<n, e, 0>>[1] = n /\ <<n, e, 0>>[2] = e
         /\ Extension(n) \in {"avi", "mp4"}
BY TriesCount, PathFacts DEF Extension

\* The only steps that change a file.
LEMMA FileSteps ==
  ASSUME IInv, NEW t \in Threads, Step(t), ~Rename(t), ~PublishMp4(t), ~Unlink(t)
  PROVE  file' = file
<1> USE DEF diskVars
<1>0. FdInv(t)
  BY DEF IInv
<1>1. CASE Open(t) \/ Item(t) \/ End(t) \/ Erase(t) \/ ChooseDest(t) \/ Create(t)
  BY <1>1 DEF Open, Item, End, Erase, ChooseDest, Create
<1>2. CASE Transfer(t) \/ EncodeEnds(t)
  BY <1>0, <1>2, WritesPart DEF Transfer, EncodeEnds
<1>3. CASE Cleanup(t) \/ Verify(t) \/ Release(t) \/ StartTranscode(t)
           \/ SkipTranscode(t) \/ Discard(t) \/ EncodeBreaks(t)
  BY <1>3 DEF Cleanup, Verify, Release, StartTranscode, SkipTranscode, Discard,
              EncodeBreaks
<1> QED BY <1>1, <1>2, <1>3 DEF Step

\* A step of a batch touches the files of the recording it is at, and leaves it
\* one the automatic pull looks at.
LEMMA FilesOf ==
  ASSUME IInv, CopyInv, NEW t \in Threads, Step(t), file' # file,
         NEW n, n = name[t]
  PROVE  /\ pc[t] \in Placed /\ n \in Names /\ pc'[t] \notin {"dest", "create", "transfer"}
         /\ AlreadyCopied(n)'
         /\ \A p \in Paths : p[1] # n => file'[p] = file[p]
<1> USE DEF diskVars, itemVars
<1>0. TypeOK /\ PathInv(t) /\ ContentInv(t)
  BY DEF IInv, TInv
<1>1. CASE Rename(t)
  <2>1. /\ file' = [file EXCEPT ![dest[t]] = temp[dest[t]]] /\ temp[dest[t]] # "none"
        /\ pc[t] = "rename" /\ pc'[t] = "verify" /\ name' = name
    BY <1>0, <1>1 DEF Rename, Publish, To, TypeOK
  <2>2. name[t] \in Names /\ dest[t] \in Paths /\ dest[t][1] = name[t]
    BY <1>0, <2>1 DEF PathInv, Placed
  <2>3. \A p \in Paths : file'[p] = IF p = dest[t] THEN temp[dest[t]] ELSE file[p]
    BY <1>0, <2>1 DEF TypeOK
  <2>4. AlreadyCopied(n)'
    <3>1. dest[t] = <<name[t], Extension(name[t]), 0>> \/ AlreadyCopied(name[t])
      BY <2>1 DEF CopyInv
    <3> QED BY <2>1, <2>2, <2>3, <3>1, Uncounted DEF AlreadyCopied, Extension
  <2> QED BY <2>1, <2>2, <2>3, <2>4 DEF Placed
<1>2. CASE PublishMp4(t)
  <2>1. /\ file' = [file EXCEPT ![out[t]] = temp[out[t]]] /\ temp[out[t]] # "none"
        /\ pc[t] = "publish" /\ pc'[t] = "unlink" /\ name' = name
    BY <1>0, <1>2 DEF PublishMp4, Publish, To, TypeOK
  <2>2. name[t] \in Names /\ out[t] \in Paths /\ out[t][1] = name[t]
    BY <1>0, <2>1 DEF PathInv, Placed, Encoding
  <2>3. \A p \in Paths : file'[p] = IF p = out[t] THEN temp[out[t]] ELSE file[p]
    BY <1>0, <2>1 DEF TypeOK
  <2>4. AlreadyCopied(n)'
    <3>1. out[t] = <<name[t], "mp4", 0>> \/ Spared(t)
      BY <2>1 DEF CopyInv
    <3>2. name[t] \in Avi
      BY <1>0, <2>1 DEF PathInv, Encoding
    <3> QED BY <2>1, <2>2, <2>3, <3>1, <3>2, Uncounted
               DEF AlreadyCopied, Extension, Spared
  <2> QED BY <2>1, <2>2, <2>3, <2>4 DEF Placed
<1>3. CASE Unlink(t)
  <2>1. /\ file' = [file EXCEPT ![dest[t]] = "none"]
        /\ pc[t] = "unlink" /\ pc'[t] = "item"
    BY <1>0, <1>3 DEF Unlink, NextItem, To, TypeOK
  <2>2. /\ name[t] \in Names /\ dest[t] \in Paths /\ dest[t][1] = name[t]
        /\ dest[t][2] = "avi"
    BY <1>0, <2>1 DEF PathInv, Placed, Encoding
  <2>3. \A p \in Paths : file'[p] = IF p = dest[t] THEN "none" ELSE file[p]
    BY <1>0, <2>1 DEF TypeOK
  <2>4. AlreadyCopied(n)'
    <3>1. Spared(t) /\ Extension(n) = "avi"
      BY <1>0, <2>1 DEF CopyInv, PathInv, Encoding, Extension
    <3>2. /\ <<n, "mp4", 0>> \in Paths /\ <<n, "mp4", 0>> # dest[t]
          /\ <<n, "avi", 0>> \in Paths
      BY <2>2, Uncounted
    <3>3. \/ file'[<<n, "mp4", 0>>] # "none"
          \/ file'[<<n, "avi", 0>>] # "none"
      BY <2>3, <3>1, <3>2 DEF Spared
    <3> QED BY <3>1, <3>3 DEF AlreadyCopied
  <2> QED BY <2>1, <2>2, <2>3, <2>4 DEF Placed
<1> QED BY <1>1, <1>2, <1>3, FileSteps

LEMMA CopyStep ==
  ASSUME May = {}, IInv, CopyInv, NEW t \in Threads, Step(t)
  PROVE  CopyInv'
<1> DEFINE At(u) ==
      /\ pc[u] \in {"create", "transfer", "rename"} =>
           dest[u] = <<name[u], Extension(name[u]), 0>> \/ AlreadyCopied(name[u])
      /\ pc[u] \in {"encode", "publish"} => out[u] = <<name[u], "mp4", 0>> \/ Spared(u)
      /\ pc[u] = "unlink" => Spared(u)
<1>0. /\ TypeOK /\ PathInv(t) /\ At(t)
      /\ \A u \in Threads \ {t} : pc'[u] = pc[u] /\ pc[u] \notin Inside
  BY OthersKeep DEF IInv, TInv, CopyInv
<1>1. \A n \in Names : NoFile(n)' \/ AlreadyCopied(n)'
  <2>1. CASE file' = file
    <3> SUFFICES ASSUME NEW n \in Names PROVE NoFile(n)' \/ AlreadyCopied(n)'
      OBVIOUS
    <3>1. NoFile(n) \/ AlreadyCopied(n)
      BY DEF CopyInv
    <3> QED BY <2>1, <3>1 DEF NoFile, AlreadyCopied
  <2>2. CASE file' # file
    <3> SUFFICES ASSUME NEW n \in Names PROVE NoFile(n)' \/ AlreadyCopied(n)'
      OBVIOUS
    <3>1. CASE n = name[t]
      BY <2>2, <3>1, FilesOf
    <3>2. CASE n # name[t]
      <4>1. \A p \in Paths : p[1] = n => file'[p] = file[p]
        BY <2>2, <3>2, FilesOf
      <4>2. /\ file'[<<n, "mp4", 0>>] = file[<<n, "mp4", 0>>]
            /\ file'[<<n, Extension(n), 0>>] = file[<<n, Extension(n), 0>>]
        BY <4>1, Uncounted
      <4>3. NoFile(n) \/ AlreadyCopied(n)
        BY DEF CopyInv
      <4>4. CASE NoFile(n)
        BY <4>1, <4>4 DEF NoFile
      <4>5. CASE AlreadyCopied(n)
        BY <4>2, <4>5 DEF AlreadyCopied
      <4> QED BY <4>3, <4>4, <4>5
    <3> QED BY <3>1, <3>2
  <2> QED BY <2>1, <2>2
<1>2. At(t)'
  <2> USE DEF To, NextItem, Abort, LeaveItem, itemVars, diskVars, cardVars
  <2>1. CASE Open(t) \/ Item(t) \/ End(t) \/ Erase(t)
    <3>1. CASE Item(t)
      <4>1. op[t] \in AllOps /\ pc'[t] \in {pc[t], FirstStep[op[t]]}
        BY <1>0, <3>1 DEF Item, TypeOK
      <4>2. FirstStep[op[t]] \in {"dest", "erase", "transcode"}
        BY <4>1 DEF FirstStep, AllOps
      <4>3. pc'[t] \in {"item", "dest", "erase", "transcode"}
        <5>1. pc[t] = "item"
          BY <3>1 DEF Item
        <5> QED BY <4>1, <4>2, <5>1
      <4> QED BY <4>3
    <3>2. CASE Open(t)
      BY <1>0, <3>2 DEF Open, TypeOK
    <3>3. CASE End(t) \/ Erase(t)
      BY <1>0, <3>3 DEF End, Erase, TypeOK
    <3> QED BY <2>1, <3>1, <3>2, <3>3
  <2>2. CASE ChooseDest(t)
    <3>1. CASE NextItem(t) \/ Abort(t)
      BY <1>0, <3>1 DEF TypeOK
    <3>2. CASE ~NextItem(t) /\ ~Abort(t)
      <4>1. name[t] \in Names
        BY <1>0, <2>2 DEF ChooseDest, PathInv
      <4>2. PICK k \in Tries(0) :
               /\ First(k, Free(name[t], Extension(name[t]), 0))
               /\ dest' = [dest EXCEPT ![t] = <<name[t], Extension(name[t]), k>>]
               /\ To(t, "create") /\ UNCHANGED <<name, out, short,
                                                 fd>> /\ UNCHANGED file
        BY <2>2, <3>2 DEF ChooseDest
      <4>3. k = 0 \/ file[<<name[t], Extension(name[t]), 0>>] # "none"
        <5>1. k \in 0..MaxCollision /\ 0 \in Tries(0)
          BY <4>2, PlainTries, TriesCount
        <5>2. ASSUME file[<<name[t], Extension(name[t]), 0>>] = "none" PROVE k <= 0
          BY <4>2, <5>1, <5>2 DEF First, Free
        <5> QED BY <5>1, <5>2
      <4>4. /\ dest'[t] = <<name[t], Extension(name[t]), k>> /\ pc'[t] = "create"
            /\ name' = name /\ file' = file
        BY <1>0, <4>2 DEF TypeOK
      <4> QED BY <4>3, <4>4 DEF AlreadyCopied
    <3> QED BY <3>1, <3>2
  <2>3. CASE Create(t)
    BY <1>0, <2>3 DEF Create, TypeOK, AlreadyCopied
  <2>4. CASE Transfer(t)
    <3>1. file' = file
      BY <2>4, FileSteps DEF Transfer, Rename, PublishMp4, Unlink
    <3> QED BY <1>0, <2>4, <3>1 DEF Transfer, TypeOK, AlreadyCopied
  <2>5. CASE Cleanup(t) \/ Rename(t) \/ Verify(t) \/ Release(t)
    BY <1>0, <2>5 DEF Cleanup, Rename, Verify, Release, TypeOK
  <2>6. CASE StartTranscode(t)
    <3>1. /\ pc[t] = "transcode" /\ pc'[t] = "encode"
          /\ name' = name /\ dest' = dest /\ file' = file
      BY <1>0, <2>6 DEF StartTranscode, TypeOK
    <3>0. TInv
      BY DEF IInv
    <3>2. /\ name[t] \in Names /\ name[t] \in Avi /\ dest[t] \in Paths
          /\ dest[t] = <<name[t], "avi", dest[t][3]>> /\ dest[t][1] = name[t]
      <4>1. /\ name[t] \in Names /\ name[t] \in Avi /\ dest[t] \in Paths
            /\ dest[t] = <<name[t], "avi", dest[t][3]>>
        BY ONLY <3>0, <2>6, Encoded
      <4>2. dest[t][1] = name[t]
        BY ONLY <1>0, <3>1 DEF PathInv, Placed
      <4> QED BY <4>1, <4>2
    <3>3. PICK p \in Paths :
             /\ out' = [out EXCEPT ![t] = p]
             /\ dest[t][3] = 0 =>
                  p = <<name[t], "mp4", 0>> \/ file[<<name[t], "mp4", 0>>] # "none"
      BY ONLY <3>0, <2>6, Encoded, May = {}
    <3>4. out'[t] = p
      BY <1>0, <3>3 DEF TypeOK
    <3>5. CASE dest[t][3] = 0
      BY <3>1, <3>3, <3>4, <3>5 DEF Spared
    <3>6. CASE dest[t][3] # 0
      <4>1. ~NoFile(name[t])
        BY <3>1, <3>2 DEF IInv, ContentInv, NoFile
      <4>2. AlreadyCopied(name[t])
        BY <3>2, <4>1 DEF CopyInv
      <4>3. Spared(t)
        BY <3>2, <3>6, <4>2 DEF AlreadyCopied, Extension, Spared
      <4> QED BY <3>1, <4>3 DEF Spared
    <3> QED BY <3>5, <3>6
  <2>7. CASE SkipTranscode(t) \/ Discard(t) \/ Unlink(t) \/ EncodeBreaks(t)
    BY <1>0, <2>7 DEF SkipTranscode, Discard, Unlink, EncodeBreaks, TypeOK
  <2>8. CASE EncodeEnds(t)
    <3>1. file' = file
      BY <2>8, FileSteps DEF EncodeEnds, Rename, PublishMp4, Unlink
    <3> QED BY <1>0, <2>8, <3>1 DEF EncodeEnds, TypeOK, Spared
  <2>9. CASE PublishMp4(t)
    <3>1. CASE temp[out[t]] = "none"
      BY <1>0, <2>9, <3>1 DEF PublishMp4, TypeOK
    <3>2. CASE temp[out[t]] # "none"
      <4>1. /\ pc[t] = "publish" /\ pc'[t] = "unlink" /\ name' = name
            /\ file' = [file EXCEPT ![out[t]] = temp[out[t]]]
        BY <1>0, <2>9, <3>2 DEF PublishMp4, Publish, TypeOK
      <4>2. name[t] \in Names /\ out[t] \in Paths
        BY <1>0, <4>1 DEF PathInv, Placed, Encoding
      <4>3. \A p \in Paths : file'[p] = IF p = out[t] THEN temp[out[t]] ELSE file[p]
        BY <1>0, <4>1 DEF TypeOK
      <4>4. out[t] = <<name[t], "mp4", 0>> \/ Spared(t)
        BY <1>0, <4>1
      <4>5. name' = name /\ dest' = dest
        BY <2>9 DEF PublishMp4
      <4> QED BY <3>2, <4>1, <4>2, <4>3, <4>4, <4>5, Uncounted DEF Spared
    <3> QED BY <3>1, <3>2
  <2> QED
    BY <2>1, <2>2, <2>3, <2>4, <2>5, <2>6, <2>7, <2>8, <2>9 DEF Step
<1>3. \A u \in Threads \ {t} : At(u)'
  BY <1>0 DEF Inside
<1> QED BY <1>1, <1>2, <1>3 DEF CopyInv

LEMMA SameFiles ==
  ASSUME file' = file, NEW n
  PROVE  (NoFile(n) => NoFile(n)') /\ (AlreadyCopied(n) => AlreadyCopied(n)')
BY DEF NoFile, AlreadyCopied

LEMMA CopyNext ==
  ASSUME May = {}, IInv, CopyInv, [Next]_vars
  PROVE  CopyInv'
<1>0. TypeOK
  BY DEF IInv, TInv
<1>1. CASE \E t \in Threads : Step(t)
  BY <1>1, CopyStep
<1>2. ASSUME UNCHANGED <<file, name, dest, out>>,
             \A t \in Threads : pc'[t] = pc[t] \/ pc'[t] \notin Placed
      PROVE  CopyInv'
  <2>1. file' = file
    BY <1>2
  <2>2. ASSUME NEW n \in Names PROVE NoFile(n)' \/ AlreadyCopied(n)'
    BY <2>1, SameFiles DEF CopyInv
  <2> QED BY <1>2, <2>2 DEF CopyInv, AlreadyCopied, Spared, Placed
<1> USE DEF itemVars, diskVars
<1>3. CASE \E u \in Users : Request(u) \/ ClaimBusy(u) \/ ListLocalAvi(u)
  <2>1. UNCHANGED <<file, name, dest, out>>
    BY <1>3 DEF Request, ClaimBusy, ListLocalAvi
  <2>2. \A t \in Threads : pc'[t] = pc[t] \/ pc'[t] \notin Placed
    BY <1>0, <1>3 DEF Request, ClaimBusy, ListLocalAvi, To, TypeOK, Placed
  <2> QED BY <1>2, <2>1, <2>2
<1>4. CASE AutoGate \/ AutoList
  <2>1. UNCHANGED <<file, name, dest, out>>
    BY <1>4 DEF AutoGate, AutoList
  <2>2. \A t \in Threads : pc'[t] = pc[t] \/ pc'[t] \notin Placed
    BY <1>0, <1>4 DEF AutoGate, AutoList, To, TypeOK, Placed
  <2> QED BY <1>2, <2>1, <2>2
<1>5. CASE Crash
  <2>1. file' = file /\ \A t \in Threads : pc'[t] = "idle"
    BY <1>5 DEF Crash
  <2>2. ASSUME NEW n \in Names PROVE NoFile(n)' \/ AlreadyCopied(n)'
    BY <2>1, SameFiles DEF CopyInv
  <2> QED BY <2>1, <2>2 DEF CopyInv
<1>6. CASE (\E n \in Names : Record(n)) \/ PrintStateChanges \/ UNCHANGED vars
  BY <1>2, <1>6 DEF Record, PrintStateChanges, vars
<1> QED BY <1>1, <1>3, <1>4, <1>5, <1>6 DEF Next

\* Where the recording in hand comes from.
LEMMA InHand ==
  ASSUME TInv, NEW t \in Threads, Step(t)
  PROVE  /\ todo'[t] \subseteq todo[t]
         /\ \/ pc'[t] \notin Placed \cup {"dest"}
            \/ /\ pc[t] \in Placed \cup {"dest"} /\ name'[t] = name[t]
               /\ pc'[t] \in {"dest", "create", "transfer"} => pc[t] \in {"dest", "create"}
            \/ name'[t] \in todo[t] /\ name'[t] \notin todo'[t]
<1> USE DEF batchVars, itemVars, To, NextItem, Abort, LeaveItem, Placed
<1>0. TypeOK
  BY DEF TInv
<1>1. CASE Item(t)
  <2>1. PICK n \in todo[t] :
           /\ todo' = [todo EXCEPT ![t] = @ \ {n}]
           /\ \/ name' = [name EXCEPT ![t] = n]
              \/ pc' = pc
    BY <1>1 DEF Item
  <2>2. todo'[t] = todo[t] \ {n}
    BY <1>0, <2>1 DEF TypeOK
  <2>3. CASE name' = [name EXCEPT ![t] = n]
    BY <1>0, <2>2, <2>3 DEF TypeOK
  <2>4. CASE pc' = pc
    BY <1>1, <2>2, <2>4 DEF Item
  <2> QED BY <2>1, <2>3, <2>4
<1>2. CASE End(t)
  <2>1. todo'[t] = {} /\ pc'[t] = "idle"
    BY <1>0, <1>2 DEF End, TypeOK
  <2> QED BY <2>1
<1>3. CASE ~Item(t) /\ ~End(t)
  <2>1. todo' = todo
    BY <1>3 DEF Step, Open, Erase, ChooseDest, Create, Transfer, Cleanup, Rename,
                Verify, Release, StartTranscode, SkipTranscode, EncodeEnds,
                EncodeBreaks, PublishMp4, Discard, Unlink
  <2>2. CASE Open(t) \/ Erase(t) \/ Cleanup(t) \/ SkipTranscode(t)
             \/ Discard(t) \/ Unlink(t) \/ EncodeBreaks(t)
    <3>1. pc'[t] \in {"end", "item"}
      BY <1>0, <2>2 DEF Open, Erase, Cleanup, SkipTranscode, Discard, Unlink,
                        EncodeBreaks, TypeOK
    <3> QED BY <2>1, <3>1
  <2>3. CASE ChooseDest(t) \/ Create(t) \/ Transfer(t)
    BY <1>0, <2>1, <2>3 DEF ChooseDest, Create, Transfer, TypeOK
  <2>4. CASE Rename(t) \/ Verify(t) \/ Release(t)
    BY <1>0, <2>1, <2>4 DEF Rename, Verify, Release, TypeOK
  <2>5. CASE StartTranscode(t) \/ EncodeEnds(t) \/ PublishMp4(t)
    BY <1>0, <2>1, <2>5 DEF StartTranscode, EncodeEnds, PublishMp4, TypeOK
  <2> QED BY <1>3, <2>2, <2>3, <2>4, <2>5 DEF Step
<1> QED BY <1>1, <1>2, <1>3

LEMMA AutoStep ==
  ASSUME IInv, CopyInv, AutoInv, NEW t \in Threads, Step(t)
  PROVE  AutoInv'
<1>0. /\ TypeOK /\ TInv /\ Autosync \in Threads
      /\ \A u \in Threads \ {t} : pc'[u] = pc[u] /\ pc[u] \notin Inside
  BY OthersKeep DEF IInv, TInv, Threads
<1>1. CASE t # Autosync
  <2>1. pc'[Autosync] \notin Inside
    BY <1>0, <1>1
  <2> QED BY <2>1 DEF AutoInv, Inside, Placed
<1>2. CASE t = Autosync
  <2>0. pc[t] \in Inside \ {"list"}
    <3>1. pc[t] # "list"
      BY DEF Step, Open, Item, End, Erase, ChooseDest, Create, Transfer, Cleanup,
             Rename, Verify, Release, StartTranscode, SkipTranscode, EncodeEnds,
             EncodeBreaks, PublishMp4, Discard, Unlink
    <3> QED BY <1>0, <3>1, Moves
  <2>1. /\ \A n \in todo[t] : n \in Names /\ NoFile(n)
        /\ todo'[t] \subseteq todo[t]
    BY <1>0, <1>2, <2>0, InHand DEF AutoInv, TypeOK
  <2>2. \A n \in todo[t] : NoFile(n)'
    <3> SUFFICES ASSUME NEW n \in todo[t] PROVE NoFile(n)'
      OBVIOUS
    <3>1. CASE file' = file
      BY <2>1, <3>1 DEF NoFile
    <3>2. CASE file' # file
      <4>1. pc[t] \in Placed /\ \A p \in Paths : p[1] # name[t] => file'[p] = file[p]
        BY <3>2, FilesOf
      <4>2. n # name[t]
        BY <1>2, <4>1 DEF AutoInv
      <4> QED BY <2>1, <4>1, <4>2 DEF NoFile
    <3> QED BY <3>1, <3>2
  <2>3. ASSUME pc'[t] \in Placed \cup {"dest"} PROVE name'[t] \notin todo'[t]
    <3>1. CASE pc[t] \in Placed \cup {"dest"} /\ name'[t] = name[t]
      BY <1>2, <2>1, <3>1 DEF AutoInv
    <3> QED BY <1>0, <2>3, <3>1, InHand
  <2>4. ASSUME pc'[t] \in {"dest", "create", "transfer"}
        PROVE  \A p \in Paths : p[1] = name'[t] => file'[p] = "none"
    <3>1. file' = file
      BY <2>4, FilesOf
    <3>2. \A p \in Paths : p[1] = name'[t] => file[p] = "none"
      <4>1. \/ pc[t] \in {"dest", "create"} /\ name'[t] = name[t]
            \/ name'[t] \in todo[t]
        BY <1>0, <2>4, InHand DEF Placed
      <4>2. CASE pc[t] \in {"dest", "create"} /\ name'[t] = name[t]
        BY <1>2, <4>2 DEF AutoInv, NoFile
      <4>3. CASE name'[t] \in todo[t]
        BY <2>1, <4>3 DEF NoFile
      <4> QED BY <4>1, <4>2, <4>3
    <3> QED BY <3>1, <3>2
  <2> QED BY <1>2, <2>1, <2>2, <2>3, <2>4 DEF AutoInv, NoFile
<1> QED BY <1>1, <1>2

LEMMA AutoNext ==
  ASSUME IInv, CopyInv, AutoInv, [Next]_vars
  PROVE  AutoInv'
<1>0. TypeOK /\ Autosync \in Threads /\ Autosync \notin Users
  BY BatchAssumption DEF IInv, TInv, Threads
<1> USE DEF AutoInv, NoFile, To, itemVars, diskVars, batchVars, Placed, Inside
<1>1. CASE \E t \in Threads : Step(t)
  BY <1>1, AutoStep
<1>2. ASSUME NEW u \in Users, Request(u) \/ ClaimBusy(u) \/ ListLocalAvi(u) PROVE AutoInv'
  <2>1. /\ file' = file /\ name' = name
        /\ pc'[Autosync] = pc[Autosync] /\ todo'[Autosync] = todo[Autosync]
    BY <1>0, <1>2 DEF Request, ClaimBusy, ListLocalAvi, TypeOK
  <2> QED BY <2>1
<1>3. CASE AutoGate
  <2>1. pc'[Autosync] = "list"
    BY <1>0, <1>3 DEF AutoGate, TypeOK
  <2> QED BY <2>1
<1>4. CASE AutoList
  <2>1. PICK S \in {{}, {n \in remote : ~AlreadyCopied(n)}} :
           /\ pc' = [pc EXCEPT ![Autosync] = IF S = {} THEN "idle" ELSE "open"]
           /\ todo' = [todo EXCEPT ![Autosync] = S]
           /\ file' = file
    BY <1>4 DEF AutoList
  <2>2. /\ pc'[Autosync] \in {"idle", "open"} /\ todo'[Autosync] = S
    BY <1>0, <2>1 DEF TypeOK
  <2>3. \A n \in S : NoFile(n)
    BY <1>0 DEF CopyInv, TypeOK
  <2> QED BY <2>1, <2>2, <2>3
<1>5. CASE Crash
  <2>1. pc'[Autosync] = "idle"
    BY <1>0, <1>5 DEF Crash
  <2> QED BY <2>1
<1>6. CASE (\E n \in Names : Record(n)) \/ PrintStateChanges \/ UNCHANGED vars
  BY <1>6 DEF Record, PrintStateChanges, vars
<1> QED BY <1>1, <1>2, <1>3, <1>4, <1>5, <1>6 DEF Next

\* The automatic pull never fetches a recording the folder has already, under
\* its name or converted, with any counter: what it lists has no file at all,
\* and nobody else writes while it runs.
THEOREM NeverTwice ==
  ASSUME May = {} PROVE Spec => []AutoNeverDuplicates
<1>1. Init => CopyInv /\ AutoInv
  BY DEF Init, CopyInv, AutoInv, NoFile, Inside, Placed, Threads
<1>2. IInv /\ [Next]_vars => IInv'
  BY NextI
<1>3. IInv /\ CopyInv /\ [Next]_vars => CopyInv'
  BY CopyNext
<1>4. IInv /\ CopyInv /\ AutoInv /\ [Next]_vars => AutoInv'
  BY AutoNext
<1>5. AutoInv => AutoNeverDuplicates
  BY DEF AutoInv, AutoNeverDuplicates, NoFile
<1> QED BY <1>1, <1>2, <1>3, <1>4, <1>5, InitI, PTL DEF Spec
=============================================================================
