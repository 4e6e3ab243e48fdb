--------------------------- MODULE TimelapseBatch ---------------------------
(* The transfers between the printer's SD card and OctoPrint's timelapse     *)
(* folder: batches of copy, move, delete and convert (timelapse_ops.py), the *)
(* download they use (ftp.py), the re-encoding of an .avi (transcode.py) and *)
(* the automatic pull after a print (stage 2 of autosync.py).                *)
(*                                                                           *)
(* A file is written beside its name, as <name>.part, and renamed; the       *)
(* writer keeps it open, so a thread that renames or removes a .part may hit *)
(* the one of another.  A batch of a user claims the busy flag, the          *)
(* automatic one only reads it.                                              *)
(*                                                                           *)
(* Left out: names and their sanitizing (distinct recordings have distinct   *)
(* local names), progress, thumbnails, the file's date.  An ffmpeg whose     *)
(* reader is gone is taken to be gone too.                                   *)
EXTENDS Integers, FiniteSets

CONSTANTS
  Names,        \* recordings on the SD card
  Avi,          \* those of them that are .avi files
  Users,        \* request threads and the batch threads they start
  Autosync,     \* the post-print worker
  AutoAction,   \* setting auto_sync_action
  Transcode,    \* setting transcode_to_mp4, with an ffmpeg configured
  May,          \* what this instance lets happen, see Perils
  MaxCollision, \* MAX_COLLISION
  MaxBatches,   \* bound: batches
  MaxCrashes,   \* bound: times the process goes down
  Ops           \* the batches this instance exercises

AllOps == {"copy", "move", "delete", "convert"}

\* A user starts a batch while the automatic pull runs; the printer does not
\* answer SIZE; a recording's MaxCollision + 1 names are all taken.
Perils == {"overlap", "no_size", "no_names"}

ASSUME BatchAssumption ==
  /\ Avi \subseteq Names
  /\ Autosync \notin Users
  /\ AutoAction \in {"copy", "move"}
  /\ Transcode \in BOOLEAN
  /\ May \subseteq Perils
  /\ MaxCollision \in Nat /\ MaxBatches \in Nat /\ MaxCrashes \in Nat
  /\ Ops \subseteq AllOps

Threads == Users \cup {Autosync}

\* The counters tried for a name that has the counter `from` already (none is
\* 0): its own, and those appended to it.
Tries(from) == {from} \cup {from * (MaxCollision + 1) + i : i \in 1..MaxCollision}
Counters == UNION {Tries(k) : k \in 0..MaxCollision}

\* <<recording, extension, collision counter>>
Paths == (Names \X {"avi"} \X (0..MaxCollision)) \cup (Names \X {"mp4"} \X Counters)
NoPath == <<>>
NoName == "none"

Contents == {"none", "partial", "full"}

VARIABLES
  fresh,    \* recordings still to be made
  remote,   \* the recordings on the SD card
  file,     \* what is under each name of the timelapse folder
  temp,     \* ... and under the same name with .part
  ftpBusy,  \* _ftp_busy
  printing, \* _print_active()
  pc,       \* where each thread is
  op,       \* its operation
  todo,     \* the names it has still to process (in any order)
  listing,  \* the listing its batch began with
  name,     \* the recording it is at
  dest,     \* the path it downloads to, or converts from
  out,      \* the .mp4 it encodes to
  short,    \* fewer bytes arrived than the recording has
  fd,       \* where the .part it has open is linked now
  batches, crashes,
  erased,   \* history: recordings a user deleted
  orphans   \* history: .part files that nobody was left to remove

diskVars == <<file, temp>>
cardVars == <<fresh, remote, erased>>
itemVars == <<name, dest, out, short, fd>>
batchVars == <<op, todo, listing>>
boundVars == <<batches, crashes>>
vars == <<cardVars, diskVars, ftpBusy, printing, pc, batchVars, itemVars,
          boundVars, orphans>>

----------------------------------------------------------------------------

\* Before a thread owns a batch; the steps of a batch.
Outside == {"idle", "claim", "dead"}
Inside == {"prepare", "list", "open", "item", "erase", "dest", "create", "transfer",
           "cleanup", "abort", "rename", "verify", "release", "transcode",
           "encode", "discard", "publish", "unlink", "end"}

\* Every variable has its type.
TypeOK ==
  /\ fresh \subseteq Names /\ remote \subseteq Names /\ erased \subseteq Names
  /\ file \in [Paths -> Contents]
  /\ temp \in [Paths -> Contents]
  /\ ftpBusy \in BOOLEAN
  /\ printing \in BOOLEAN
  /\ pc \in [Threads -> Outside \cup Inside]
  /\ op \in [Threads -> AllOps]
  /\ todo \in [Threads -> SUBSET Names]
  /\ listing \in [Threads -> SUBSET Names]
  /\ name \in [Threads -> Names \cup {NoName}]
  /\ dest \in [Threads -> Paths \cup {NoPath}]
  /\ out \in [Threads -> Paths \cup {NoPath}]
  /\ short \in [Threads -> BOOLEAN]
  /\ fd \in [Threads -> {"closed", "temp", "file", "unlinked"}]
  /\ batches \in 0..MaxBatches
  /\ crashes \in 0..MaxCrashes
  /\ orphans \subseteq Paths

Init ==
  /\ fresh = Names /\ remote = {} /\ erased = {}
  /\ file = [p \in Paths |-> "none"]
  /\ temp = [p \in Paths |-> "none"]
  /\ ftpBusy = FALSE
  /\ printing = FALSE
  /\ pc = [t \in Threads |-> "idle"]
  /\ op = [t \in Threads |-> "copy"]
  /\ todo = [t \in Threads |-> {}]
  /\ listing = [t \in Threads |-> {}]
  /\ name = [t \in Threads |-> NoName]
  /\ dest = [t \in Threads |-> NoPath]
  /\ out = [t \in Threads |-> NoPath]
  /\ short = [t \in Threads |-> FALSE]
  /\ fd = [t \in Threads |-> "closed"]
  /\ batches = 0 /\ crashes = 0
  /\ orphans = {}

----------------------------------------------------------------------------
(* Helpers. *)

To(t, step) == pc' = [pc EXCEPT ![t] = step]

\* The name in the timelapse folder without the collision counter.
Extension(n) == IF n \in Avi THEN "avi" ELSE "mp4"

\* Variant: a name is free, whatever is under it.
FreeOrNot(n, ext, from) == Tries(from)

\* The counters still free for a recording and an extension.
Free(n, ext, from) == {k \in Tries(from) : file[<<n, ext, k>>] = "none"}

\* Is k the first of them?
First(k, ks) == k \in ks /\ \A j \in ks : k <= j

AviFiles(n) == {p \in Paths : p[1] = n /\ p[2] = "avi" /\ file[p] # "none"}

\* Variant: the .mp4 twin is not looked for.
CopiedAsIs(n) == file[<<n, Extension(n), 0>>] # "none"

\* _local_copy_name: the copy, or the .mp4 it was converted to.
AlreadyCopied(n) ==
  file[<<n, "mp4", 0>>] # "none" \/ file[<<n, Extension(n), 0>>] # "none"

\* Who has the .part of p open, wherever it is linked.
Writes(t, p) ==
  fd[t] # "closed" /\ p = IF pc[t] = "encode" THEN out[t] ELSE dest[t]

\* The others' files when what is under p.part is unlinked, or renamed to p.
Relinked(t, p, where) ==
  [u \in Threads |->
     IF u = t \/ ~Writes(u, p) THEN fd[u]
     ELSE IF fd[u] = "temp" THEN where
     ELSE IF fd[u] = "file" /\ where = "file" THEN "unlinked"
     ELSE fd[u]]

\* What t writes is found where its file is linked now.
Write(t, p, c) ==
  /\ temp' = IF fd[t] = "temp" THEN [temp EXCEPT ![p] = c] ELSE temp
  /\ file' = IF fd[t] = "file" THEN [file EXCEPT ![p] = c] ELSE file

\* os.replace(p.part, p).
Publish(t, p) ==
  /\ file' = [file EXCEPT ![p] = temp[p]]
  /\ temp' = [temp EXCEPT ![p] = "none"]
  /\ fd' = Relinked(t, p, "file")
  /\ orphans' = orphans \ {p}

\* The thread has done with a recording.
LeaveItem(t, fds) ==
  /\ name' = [name EXCEPT ![t] = NoName]
  /\ dest' = [dest EXCEPT ![t] = NoPath]
  /\ out' = [out EXCEPT ![t] = NoPath]
  /\ short' = [short EXCEPT ![t] = FALSE]
  /\ fd' = fds

\* The recording is skipped or finished; or the batch ends with it.  An OSError
\* is caught for the recording, an error reply of the server is not.
NextItem(t) == To(t, "item") /\ LeaveItem(t, fd)
Abort(t) == To(t, "end") /\ LeaveItem(t, [fd EXCEPT ![t] = "closed"])

----------------------------------------------------------------------------
(* The printer. *)

Record(n) ==
  /\ n \in fresh
  /\ fresh' = fresh \ {n}
  /\ remote' = remote \cup {n}
  /\ UNCHANGED <<erased, diskVars, ftpBusy, printing, pc, batchVars, itemVars,
                 boundVars, orphans>>

PrintStateChanges ==
  /\ printing' = ~printing
  /\ UNCHANGED <<cardVars, diskVars, ftpBusy, pc, batchVars, itemVars,
                 boundVars, orphans>>

----------------------------------------------------------------------------
(* The requests, and the automatic pull. *)

\* _handle_timelapse_op, _handle_convert_local: the checks before the flag.
Request(u) ==
  /\ pc[u] = "idle" /\ batches < MaxBatches
  /\ \E o \in Ops, S \in SUBSET Names \ {{}} :
       /\ o = "copy" \/ ~printing
       /\ op' = [op EXCEPT ![u] = o]
       /\ todo' = [todo EXCEPT ![u] = S]
  /\ To(u, "claim")
  /\ batches' = batches + 1
  /\ UNCHANGED <<cardVars, diskVars, ftpBusy, printing, listing, itemVars,
                 crashes, orphans>>

\* Variant: the flag is set, and not looked at.
ClaimBusyAnyway(u) ==
  /\ pc[u] = "claim"
  /\ "overlap" \in May \/ pc[Autosync] = "idle"
  /\ ftpBusy' = TRUE
  /\ To(u, IF op[u] = "convert" THEN "prepare" ELSE "open")
  /\ UNCHANGED <<batchVars, cardVars, diskVars, printing, itemVars, boundVars,
                 orphans>>

\* ... and the flag, under its lock.
ClaimBusy(u) ==
  /\ pc[u] = "claim"
  /\ "overlap" \in May \/ pc[Autosync] = "idle"
  /\ IF ftpBusy
       THEN To(u, "idle") /\ UNCHANGED ftpBusy
       ELSE /\ ftpBusy' = TRUE
            /\ To(u, IF op[u] = "convert" THEN "prepare" ELSE "open")
  /\ UNCHANGED <<batchVars, cardVars, diskVars, printing, itemVars, boundVars,
                 orphans>>

\* A conversion lists the local files, outside its try: if that fails (a file
\* goes between isfile and getsize) the thread dies and the flag stays.
ListLocalAvi(u) ==
  /\ pc[u] = "prepare"
  /\ \/ /\ listing' = [listing EXCEPT ![u] = {n \in Names : AviFiles(n) # {}}]
        /\ To(u, "item")
     \/ To(u, "dead") /\ UNCHANGED listing
  /\ UNCHANGED <<op, todo, cardVars, diskVars, ftpBusy, printing, itemVars,
                 boundVars, orphans>>

\* _wait_until_idle: the flag is read, nothing is claimed.
AutoGate ==
  /\ pc[Autosync] = "idle" /\ batches < MaxBatches
  /\ ~printing /\ ~ftpBusy
  /\ To(Autosync, "list")
  /\ batches' = batches + 1
  /\ UNCHANGED <<cardVars, diskVars, ftpBusy, printing, batchVars, itemVars,
                 crashes, orphans>>

\* _do_autosync: the recordings without a local copy.
AutoList ==
  /\ pc[Autosync] = "list"
  /\ \E S \in {{}, {n \in remote : ~AlreadyCopied(n)}} :
       /\ To(Autosync, IF S = {} THEN "idle" ELSE "open")
       /\ todo' = [todo EXCEPT ![Autosync] = S]
  /\ op' = [op EXCEPT ![Autosync] = AutoAction]
  /\ UNCHANGED <<cardVars, diskVars, ftpBusy, printing, listing, itemVars,
                 boundVars, orphans>>

----------------------------------------------------------------------------
(* _run_batch. *)

\* A session and a listing; without them the batch ends.
Open(t) ==
  /\ pc[t] = "open"
  /\ \/ To(t, "end") /\ UNCHANGED listing
     \/ To(t, "item") /\ listing' = [listing EXCEPT ![t] = remote]
  /\ UNCHANGED <<op, todo, cardVars, diskVars, ftpBusy, printing, itemVars,
                 boundVars, orphans>>

\* Variant: the operation taken for the step.
FirstStepRaw == [o \in AllOps |-> o]

\* The next recording.  A conversion takes one of its local files.
FirstStep == [copy |-> "dest", move |-> "dest", delete |-> "erase",
              convert |-> "transcode"]

Item(t) ==
  /\ pc[t] = "item"
  /\ \E n \in todo[t] :
       /\ todo' = [todo EXCEPT ![t] = @ \ {n}]
       /\ \/ /\ n \in listing[t]
             /\ name' = [name EXCEPT ![t] = n]
             /\ \E p \in IF op[t] = "convert" THEN AviFiles(n) ELSE {NoPath} :
                  dest' = [dest EXCEPT ![t] = p]
             /\ To(t, FirstStep[op[t]])
          \/ /\ n \notin listing[t] \/ (op[t] = "convert" /\ AviFiles(n) = {})
             /\ UNCHANGED <<pc, name, dest>>
  /\ UNCHANGED <<op, listing, out, short, fd, cardVars, diskVars, ftpBusy,
                 printing, boundVars, orphans>>

\* Variant: without the finally.
EndSilently(t) ==
  /\ pc[t] = "end" \/ (pc[t] = "item" /\ todo[t] = {})
  /\ To(t, "idle")
  /\ todo' = [todo EXCEPT ![t] = {}]
  /\ listing' = [listing EXCEPT ![t] = {}]
  /\ UNCHANGED <<ftpBusy, op, cardVars, diskVars, printing, itemVars, boundVars,
                 orphans>>

\* The flag goes down, whoever has set it.
End(t) ==
  /\ pc[t] = "end" \/ (pc[t] = "item" /\ todo[t] = {})
  /\ To(t, "idle")
  /\ todo' = [todo EXCEPT ![t] = {}]
  /\ listing' = [listing EXCEPT ![t] = {}]
  /\ ftpBusy' = FALSE
  /\ UNCHANGED <<op, cardVars, diskVars, printing, itemVars, boundVars, orphans>>

----------------------------------------------------------------------------
(* _process_one. *)

Erase(t) ==
  /\ pc[t] = "erase"
  /\ \/ /\ name[t] \in remote
        /\ remote' = remote \ {name[t]}
        /\ erased' = erased \cup {name[t]}
        /\ NextItem(t)
     \/ NextItem(t) /\ UNCHANGED <<remote, erased>>
     \/ Abort(t) /\ UNCHANGED <<remote, erased>>
  /\ UNCHANGED <<fresh, diskVars, ftpBusy, printing, batchVars, boundVars, orphans>>

\* _build_dest_path: the first free name; without room or a name the recording
\* is skipped, and so it is, or the batch ends, without an answer to SIZE.
ChooseDest(t) ==
  /\ pc[t] = "dest"
  /\ LET ext == Extension(name[t])
     IN  \/ \E k \in Tries(0) :
              /\ First(k, Free(name[t], ext, 0))
              /\ dest' = [dest EXCEPT ![t] = <<name[t], ext, k>>]
              /\ To(t, "create")
              /\ UNCHANGED <<name, out, short, fd>>
         \/ NextItem(t)
         \/ Abort(t)
  /\ UNCHANGED <<cardVars, diskVars, ftpBusy, printing, batchVars, boundVars,
                 orphans>>

\* download(): the .part must not exist; whatever fails from here on ends in
\* the removal of the .part.
Create(t) ==
  /\ pc[t] = "create"
  /\ \/ /\ temp[dest[t]] = "none"
        /\ temp' = [temp EXCEPT ![dest[t]] = "partial"]
        /\ fd' = [fd EXCEPT ![t] = "temp"]
        /\ To(t, "transfer")
     \/ To(t, "cleanup") /\ UNCHANGED <<temp, fd>>
     \/ To(t, "abort") /\ UNCHANGED <<temp, fd>>
  /\ orphans' = orphans \ {dest[t]}
  /\ UNCHANGED <<name, dest, out, short, cardVars, file, ftpBusy, printing,
                 batchVars, boundVars>>

\* retrbinary: all the bytes arrive, or the server is content with fewer; they
\* go where the open .part is linked by now.
Transfer(t) ==
  /\ pc[t] = "transfer"
  /\ \/ /\ name[t] \in remote
        /\ short' \in {[short EXCEPT ![t] = b] : b \in BOOLEAN}
        /\ Write(t, dest[t], IF short'[t] THEN "partial" ELSE "full")
        /\ To(t, "rename")
     \/ \E step \in {"cleanup", "abort"} : To(t, step) /\ UNCHANGED <<short,
                                                                      diskVars>>
  /\ fd' = [fd EXCEPT ![t] = "closed"]
  /\ UNCHANGED <<name, dest, out, cardVars, ftpBusy, printing, batchVars,
                 boundVars, orphans>>

\* Variant: the .part stays.
CleanupNothing(t) ==
  /\ pc[t] \in {"cleanup", "abort"}
  /\ To(t, IF pc[t] = "cleanup" THEN "item" ELSE "end")
  /\ LeaveItem(t, fd)
  /\ UNCHANGED <<cardVars, diskVars, ftpBusy, printing, batchVars, boundVars,
                 orphans>>

\* _cleanup: whatever is under the .part name goes.
Cleanup(t) ==
  /\ pc[t] \in {"cleanup", "abort"}
  /\ temp' = [temp EXCEPT ![dest[t]] = "none"]
  /\ To(t, IF pc[t] = "cleanup" THEN "item" ELSE "end")
  /\ LeaveItem(t, Relinked(t, dest[t], "unlinked"))
  /\ orphans' = orphans \ {dest[t]}
  /\ UNCHANGED <<cardVars, file, ftpBusy, printing, batchVars, boundVars>>

\* os.replace.
Rename(t) ==
  /\ pc[t] = "rename"
  /\ IF temp[dest[t]] = "none"
       THEN To(t, "cleanup") /\ UNCHANGED <<fd, diskVars, orphans>>
       ELSE To(t, "verify") /\ Publish(t, dest[t])
  /\ UNCHANGED <<name, dest, out, short, cardVars, ftpBusy, printing, batchVars,
                 boundVars>>

\* Variant: without the comparison.
VerifyNothing(t) ==
  /\ pc[t] = "verify"
  /\ To(t, IF op[t] = "move" THEN "release" ELSE "transcode")
  /\ UNCHANGED <<itemVars, cardVars, diskVars, ftpBusy, printing, batchVars,
                 boundVars, orphans>>

\* A move compares the bytes that were written with the size, if it knows it.
Verify(t) ==
  /\ pc[t] = "verify"
  /\ \/ op[t] = "move" /\ short[t] /\ NextItem(t)
     \/ /\ op[t] = "move" /\ (short[t] => "no_size" \in May)
        /\ To(t, "release") /\ UNCHANGED itemVars
     \/ op[t] = "copy" /\ To(t, "transcode") /\ UNCHANGED itemVars
  /\ UNCHANGED <<cardVars, diskVars, ftpBusy, printing, batchVars, boundVars,
                 orphans>>

\* ... and then deletes the recording from the card.
Release(t) ==
  /\ pc[t] = "release"
  /\ \/ /\ name[t] \in remote
        /\ remote' = remote \ {name[t]}
        /\ To(t, "transcode") /\ UNCHANGED itemVars
     \/ NextItem(t) /\ UNCHANGED remote
     \/ Abort(t) /\ UNCHANGED remote
  /\ UNCHANGED <<fresh, erased, diskVars, ftpBusy, printing, batchVars,
                 boundVars, orphans>>

----------------------------------------------------------------------------
(* _maybe_transcode, _convert_one and TimelapseTranscoder.transcode. *)

\* The first free name, from the .avi's own on.  ffmpeg -y opens its .part, or
\* truncates the one that is there: two encoders of one file garble it.
StartTranscode(t) ==
  /\ pc[t] = "transcode"
  /\ name[t] \in Avi
  /\ op[t] = "convert" \/ (Transcode /\ ~printing)
  /\ \E k \in Tries(dest[t][3]) :
       LET p == <<name[t], "mp4", k>>
           free == Free(name[t], "mp4", dest[t][3])
           others == {u \in Threads : Writes(u, p)}
       IN  /\ \/ First(k, free)
              \/ free = {} /\ k = dest[t][3] /\ "no_names" \in May
           /\ out' = [out EXCEPT ![t] = p]
           /\ temp' = [temp EXCEPT ![p] = "partial"]
           /\ short' = [u \in Threads |->
                          IF u = t THEN others # {} ELSE short[u] \/ u \in others]
           /\ orphans' = orphans \ {p}
  /\ fd' = [fd EXCEPT ![t] = "temp"]
  /\ To(t, "encode")
  /\ UNCHANGED <<name, dest, cardVars, file, ftpBusy, printing, batchVars,
                 boundVars>>

\* Nothing to encode, or not now: the file stays as it is.
SkipTranscode(t) ==
  /\ pc[t] = "transcode"
  /\ name[t] \in Avi /\ Transcode => printing \/ op[t] = "convert"
  /\ NextItem(t)
  /\ UNCHANGED <<cardVars, diskVars, ftpBusy, printing, batchVars, boundVars,
                 orphans>>

\* ffmpeg ends: what it wrote is as whole as what it read, or it has failed.
EncodeEnds(t) ==
  /\ pc[t] = "encode"
  /\ \/ /\ file[dest[t]] # "none"
        /\ Write(t, out[t], IF short[t] THEN "partial" ELSE file[dest[t]])
        /\ To(t, "publish")
     \/ To(t, "discard") /\ UNCHANGED diskVars
  /\ fd' = [fd EXCEPT ![t] = "closed"]
  /\ UNCHANGED <<name, dest, out, short, cardVars, ftpBusy, printing, batchVars,
                 boundVars, orphans>>

\* An exception of another kind, from reading ffmpeg's messages or from the
\* progress callback: nobody removes the .part, and the batch ends.
EncodeBreaks(t) ==
  /\ pc[t] = "encode"
  /\ Abort(t)
  /\ orphans' = orphans \cup {out[t]}
  /\ UNCHANGED <<cardVars, diskVars, ftpBusy, printing, batchVars, boundVars>>

PublishMp4(t) ==
  /\ pc[t] = "publish"
  /\ IF temp[out[t]] = "none"
       THEN To(t, "discard") /\ UNCHANGED <<fd, diskVars, orphans>>
       ELSE To(t, "unlink") /\ Publish(t, out[t])
  /\ UNCHANGED <<name, dest, out, short, cardVars, ftpBusy, printing, batchVars,
                 boundVars>>

\* The encoding failed: its .part goes, the .avi stays.
Discard(t) ==
  /\ pc[t] = "discard"
  /\ temp' = [temp EXCEPT ![out[t]] = "none"]
  /\ To(t, "item")
  /\ LeaveItem(t, Relinked(t, out[t], "unlinked"))
  /\ UNCHANGED <<cardVars, file, ftpBusy, printing, batchVars, boundVars, orphans>>

\* The .mp4 replaces the .avi; an .avi that cannot be removed stays beside it.
Unlink(t) ==
  /\ pc[t] = "unlink"
  /\ file' \in {file, [file EXCEPT ![dest[t]] = "none"]}
  /\ NextItem(t)
  /\ UNCHANGED <<cardVars, temp, ftpBusy, printing, batchVars, boundVars, orphans>>

----------------------------------------------------------------------------

\* The process dies: its threads and its flag go, its files stay.
Crash ==
  /\ crashes < MaxCrashes
  /\ crashes' = crashes + 1
  /\ pc' = [t \in Threads |-> "idle"]
  /\ todo' = [t \in Threads |-> {}]
  /\ listing' = [t \in Threads |-> {}]
  /\ name' = [t \in Threads |-> NoName]
  /\ dest' = [t \in Threads |-> NoPath]
  /\ out' = [t \in Threads |-> NoPath]
  /\ short' = [t \in Threads |-> FALSE]
  /\ fd' = [t \in Threads |-> "closed"]
  /\ ftpBusy' = FALSE
  /\ orphans' = {p \in Paths : temp[p] # "none"}
  /\ UNCHANGED <<op, cardVars, diskVars, printing, batches>>

Step(t) ==
  \/ Open(t) \/ Item(t) \/ End(t) \/ Erase(t) \/ ChooseDest(t) \/ Create(t)
  \/ Transfer(t) \/ Cleanup(t) \/ Rename(t) \/ Verify(t) \/ Release(t)
  \/ StartTranscode(t) \/ SkipTranscode(t) \/ EncodeEnds(t) \/ EncodeBreaks(t)
  \/ PublishMp4(t) \/ Discard(t) \/ Unlink(t)

Next ==
  \/ \E n \in Names : Record(n)
  \/ PrintStateChanges
  \/ \E u \in Users : Request(u) \/ ClaimBusy(u) \/ ListLocalAvi(u)
  \/ AutoGate \/ AutoList
  \/ \E t \in Threads : Step(t)
  \/ Crash

Spec == Init /\ [][Next]_vars

\* The threads are scheduled, a transfer ends (the sockets have timeouts), and
\* so does ffmpeg.
FairSpec ==
  /\ Spec
  /\ \A u \in Users : WF_vars(ClaimBusy(u)) /\ WF_vars(ListLocalAvi(u))
  /\ WF_vars(AutoList)
  /\ \A t \in Threads : WF_vars(Step(t))

----------------------------------------------------------------------------
(* Properties. *)

\* The recordings of which the folder holds the whole.
OnDisk == {n \in Names : \E p \in Paths : p[1] = n /\ file[p] = "full"}

\* A recording nobody deleted is on the card, or whole in the timelapse folder,
\* at every moment of a move and of a conversion, crashes included.
NoLoss ==
  \A n \in Names \ (fresh \cup erased) : n \in remote \/ n \in OnDisk

\* The batches implement Custody: over and above NoLoss, no failure, conversion
\* or second copy spoils a whole copy the folder has.
Kept == INSTANCE Custody WITH
          Recordings <- Names, unmade <- fresh, card <- remote,
          disk <- OnDisk, deleted <- erased
CustodyKept == Kept!Spec

\* "serialized over the printer's single FTPS connection": no two batches, and
\* nobody's flag is taken down by another.
OneBatch ==
  /\ \A t, u \in Threads : pc[t] \in Inside /\ pc[u] \in Inside => t = u
  /\ \A u \in Users : pc[u] \in Inside => ftpBusy

\* A batch leaves no .part behind, whatever fails: there is one only while its
\* writer is at it, or because the process died under one, or because an
\* encode was left by an error transcode() does not expect.
NoStrayTemps ==
  \A p \in Paths :
    temp[p] = "none" \/ p \in orphans
      \/ \E t \in Threads : pc[t] \in Inside /\ p \in {dest[t], out[t]}

\* The automatic pull never fetches a recording that is in the folder already,
\* as it was or converted.
AutoNeverDuplicates ==
  pc[Autosync] = "transfer" =>
    \A p \in Paths : p[1] = name[Autosync] => file[p] = "none"

\* The flag that refuses requests comes down again, unless the thread that
\* raised it died in a conversion's listing, outside its try/finally.
FlagLowered == ftpBusy ~> ~ftpBusy \/ \E u \in Users : pc[u] = "dead"

\* The flag is "held until the batch releases it", and a convert batch that
\* crashes releases it (test_convert_batch_crash_releases_busy_flag).
FlagReleased == ftpBusy ~> ~ftpBusy

\* "Never raises - a transcode problem must not fail an otherwise-good copy"
\* (_maybe_transcode): an encode that fails does not end its batch.
EncodeNeverEndsBatch ==
  [][\A t \in Threads : pc[t] = "encode" => pc'[t] # "end"]_vars
=============================================================================
