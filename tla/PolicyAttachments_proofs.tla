----------------------- MODULE PolicyAttachments_proofs -----------------------
(***************************************************************************)
(* Proofs about the refresh of PolicyAttachments, for any set of files, any *)
(* number of overlapping refreshes, writes and failures, and any clocks:   *)
(*   - the typing invariant;                                               *)
(*   - no update is ever missed but those that NoMissedUpdate names.       *)
(* The invariant says what a refresh in flight knows of a file: it is      *)
(* still so in the folder, or the file was written after the refresh       *)
(* began.  What makes it hold of refreshes that overlap is that a file     *)
(* that is not excused was written after all of them began, or before.     *)
(***************************************************************************)
EXTENDS PolicyAttachments, TLAPS

\* A well-formed call: its type, and what it works on lies within its listing.
WellFormed(r) == r \in Call /\ WithinListing(r)

\* The state a refresh starts from, and returns to, is well formed.
LEMMA NoCallWellFormed == WellFormed(NoCall)
  BY DEF NoCall, Call, Absent, WellFormed, WithinListing

\* Replacing one call by a well-formed one keeps all calls well formed.
LEMMA CallUpdate ==
  ASSUME NEW c \in Callers, NEW r, WellFormed(r), TypeOK,
         call' = [call EXCEPT ![c] = r]
  PROVE  call' \in [Callers -> Call] /\ \A d \in Callers : WithinListing(call'[d])
  BY DEF TypeOK, WellFormed

\* The initial states are well typed.
LEMMA InitTypeOK == Init => TypeOK
<1> SUFFICES ASSUME Init
             PROVE  TypeOK
  OBVIOUS
<1>1. /\ clock \in Nat \ {0} /\ writes \in Nat /\ failures \in Nat
      /\ folder \in [Files -> File]
      /\ attachments \in [Files -> Nat] /\ refreshedAt \in Nat
  BY DEF Init, File, Absent, Never
<1>2. (\A c \in Callers : call[c] = NoCall) /\ excused = {}
  BY DEF Init
<1>3. call \in [Callers -> Call] /\ \A c \in Callers : WithinListing(call[c])
  BY <1>2, NoCallWellFormed DEF Init, WellFormed
<1>4. QED
  BY <1>1, <1>2, <1>3 DEF TypeOK

\* Every reachable state is well typed, however many refreshes overlap: what a
\* refresh selects and still has to do lies within the listing it works from.
THEOREM TypeCorrect == Spec => []TypeOK
<1>1. Init => TypeOK
  BY InitTypeOK
<1>2. TypeOK /\ [Next]_vars => TypeOK'
  <2> SUFFICES ASSUME TypeOK, [Next]_vars
               PROVE  TypeOK'
    OBVIOUS
  <2>1. ASSUME NEW f \in Files, WriteFile(f)
        PROVE  TypeOK'
    <3>1. PICK e \in Elapsed, l \in Lag :
             /\ clock' = clock + e
             /\ folder' = [folder EXCEPT ![f] = [content |-> writes + 1,
                                                 mtime |-> clock + e - l]]
      BY <2>1 DEF WriteFile
    <3>2. clock' \in Nat \ {0} /\ writes' \in Nat /\ clock + e - l \in Int
      BY <2>1, <3>1, ElapsedAssumption, LagAssumption DEF WriteFile, TypeOK
    <3>3. folder' \in [Files -> File]
      BY <3>1, <3>2 DEF TypeOK, File
    <3>4. excused' \subseteq Files
      BY <2>1 DEF WriteFile, TypeOK
    <3>5. QED
      BY <2>1, <3>2, <3>3, <3>4 DEF WriteFile, TypeOK, memory
  <2>2. ASSUME NEW f \in Files, DeleteFile(f)
        PROVE  TypeOK'
    BY <2>2 DEF DeleteFile, TypeOK, File, Absent, memory
  <2>3. ASSUME NEW c \in Callers, Start(c)
        PROVE  TypeOK'
    <3>1. WellFormed([call[c] EXCEPT !.pc = "readdir", !.startedAt = clock])
      BY <2>3 DEF Start, TypeOK, Call, WellFormed, WithinListing
    <3>2. excused' \subseteq Files
      BY <2>3 DEF Start, TypeOK, WrittenDuring
    <3>3. QED
      BY <2>3, <3>1, <3>2, CallUpdate DEF Start, TypeOK, storage, memory
  <2>4. ASSUME NEW c \in Callers, ReadDir(c)
        PROVE  TypeOK'
    <3> DEFINE names == {f \in Files : Exists(f)}
    <3>1. WellFormed([call[c] EXCEPT !.pc = "stat", !.names = names, !.pending = names])
      BY <2>4 DEF ReadDir, TypeOK, Call, WellFormed, WithinListing
    <3>2. QED
      BY <2>4, <3>1, CallUpdate DEF ReadDir, TypeOK, storage, memory
  <2>5. ASSUME NEW c \in Callers, NEW f \in Files, Stat(c, f)
        PROVE  TypeOK'
    <3>1. WellFormed([call[c] EXCEPT !.stamp[f] = folder[f].mtime,
                                     !.pending = call[c].pending \ {f}])
      BY <2>5 DEF Stat, TypeOK, Call, File, WellFormed, WithinListing
    <3>2. QED
      BY <2>5, <3>1, CallUpdate DEF Stat, TypeOK, storage, memory
  <2>6. ASSUME NEW c \in Callers, Select(c)
        PROVE  TypeOK'
    <3>1. CASE Conclude(c, attachments)
      BY <2>6, <3>1, CallUpdate, NoCallWellFormed
      DEF Select, Conclude, TypeOK, Call, Absent, storage
    <3>2. CASE ~Conclude(c, attachments)
      <4>1. NoCall.stamp \in [Files -> Int]
        BY DEF NoCall
      <4>2. WellFormed([call[c] EXCEPT !.pc = "read", !.stamp = NoCall.stamp, !.selected = ToRefresh(c),
                                       !.pending = ToRefresh(c)])
        BY <4>1 DEF TypeOK, Call, ToRefresh, WellFormed, WithinListing
      <4>3. QED
        BY <2>6, <3>2, <4>2, CallUpdate DEF Select, TypeOK, storage, memory
    <3>3. QED
      BY <3>1, <3>2
  <2>7. ASSUME NEW c \in Callers, NEW f \in Files, Read(c, f)
        PROVE  TypeOK'
    <3> DEFINE left == call[c].pending \ {f}
    <3>1. WellFormed([call[c] EXCEPT
                        !.got[f] = folder[f].content,
                        !.pc = IF left = {} THEN "compile" ELSE "read",
                        !.pending = IF left = {} THEN call[c].selected ELSE left])
      BY <2>7 DEF Read, TypeOK, Call, File, WellFormed, WithinListing
    <3>2. QED
      BY <2>7, <3>1, CallUpdate DEF Read, TypeOK, storage, memory
  <2>8. ASSUME NEW c \in Callers, NEW f \in Files, Install(c, f)
        PROVE  TypeOK'
    <3> DEFINE loaded == [attachments EXCEPT ![f] = call[c].got[f]]
               left == call[c].pending \ {f}
    <3>1. loaded \in [Files -> Nat]
      BY DEF TypeOK, Call
    <3>2. CASE Conclude(c, loaded)
      BY <2>8, <3>1, <3>2, CallUpdate, NoCallWellFormed
      DEF Install, Conclude, TypeOK, Call, Absent, storage
    <3>3. CASE ~Conclude(c, loaded)
      <4>1. WellFormed([call[c] EXCEPT !.pending = left])
        BY <2>8 DEF TypeOK, Call, WellFormed, WithinListing
      <4>2. QED
        BY <2>8, <3>1, <3>3, <4>1, CallUpdate DEF Install, TypeOK, storage
    <3>4. QED
      BY <3>2, <3>3
  <2>9. ASSUME NEW c \in Callers, FileGone(c)
        PROVE  TypeOK'
    BY <2>9, CallUpdate, NoCallWellFormed DEF FileGone, TypeOK, storage, memory
  <2>10. ASSUME NEW c \in Callers, Fail(c)
         PROVE  TypeOK'
    <3>1. call' \in [Callers -> Call] /\ \A d \in Callers : WithinListing(call'[d])
      BY <2>10, CallUpdate, NoCallWellFormed DEF Fail
    <3>2. failures' \in Nat
      BY <2>10 DEF Fail, TypeOK
    <3>3. QED
      BY <2>10, <3>1, <3>2 DEF Fail, TypeOK, storage, memory
  <2>11. CASE Restart
    <3>1. \A c \in Callers : call'[c] = NoCall
      BY <2>11 DEF Restart
    <3>2. call' \in [Callers -> Call] /\ \A c \in Callers : WithinListing(call'[c])
      BY <2>11, <3>1, NoCallWellFormed DEF Restart, WellFormed
    <3>3. QED
      BY <2>11, <3>2 DEF Restart, TypeOK, Absent, Never, storage
  <2>12. CASE UNCHANGED vars
    BY <2>12 DEF vars, TypeOK, WithinListing
  <2>13. QED
    BY <2>1, <2>2, <2>3, <2>4, <2>5, <2>6, <2>7, <2>8, <2>9, <2>10, <2>11, <2>12
    DEF Next, Step
<1>3. QED
  BY <1>1, <1>2, PTL DEF Spec

-------------------------------------------------------------------------------

\* A file that is not excused after it was written has a stamp later than every refresh
\* that has begun.
LEMMA Rewritten ==
  ASSUME TypeOK, NEW f \in Files, WriteFile(f)
  PROVE  /\ clock' \in Nat /\ clock' >= clock
         /\ \A g \in Files \ {f} : folder'[g] = folder[g] /\ (g \in excused' <=> g \in excused)
         /\ f \notin excused' => /\ folder'[f].mtime > refreshedAt
                                 /\ \A c \in Callers : InFlight(c) => folder'[f].mtime > call[c].startedAt
<1>1. PICK e \in Elapsed, l \in Lag :
         /\ clock' = clock + e
         /\ folder' = [folder EXCEPT ![f] = [content |-> writes + 1, mtime |-> clock + e - l]]
         /\ excused' = IF HasBegunSince(clock + e - l) THEN excused \cup {f} ELSE excused \ {f}
  BY DEF WriteFile
<1>2. e \in Nat /\ l \in Int /\ clock \in Nat /\ refreshedAt \in Nat
  BY ElapsedAssumption, LagAssumption DEF TypeOK
<1>3. folder'[f].mtime = clock + e - l /\ \A g \in Files \ {f} : folder'[g] = folder[g]
  BY <1>1 DEF TypeOK
<1>4. \A c \in Callers : call[c].startedAt \in Nat
  BY DEF TypeOK, Call
<1>5. f \notin excused' => ~HasBegunSince(clock + e - l)
  BY <1>1
<1>6. QED
  BY <1>1, <1>2, <1>3, <1>4, <1>5 DEF HasBegunSince

\* Changes of the folder keep the invariant.
LEMMA FolderStep ==
  ASSUME RefreshInv, TypeOK', NEW f \in Files, WriteFile(f) \/ DeleteFile(f)
  PROVE  RefreshInv'
<1>1. UNCHANGED <<attachments, refreshedAt, call>>
  BY DEF WriteFile, DeleteFile, memory
<1>2. ClocksBehind'
  BY <1>1, Rewritten DEF RefreshInv, ClocksBehind, WriteFile, DeleteFile, TypeOK, Call
<1>3. ASSUME NEW g \in Files \ excused'
      PROVE  SameSide(g)' /\ WillBeRead(g)' /\ \A c \in Callers : Known(c, g)'
  <2>1. CASE g # f
    <3>1. folder'[g] = folder[g] /\ g \notin excused
      BY <1>3, <2>1, Rewritten DEF DeleteFile, RefreshInv, TypeOK
    <3>2. SameSide(g) /\ WillBeRead(g) /\ \A c \in Callers : Known(c, g)
      BY <3>1 DEF RefreshInv
    <3>3. SameSide(g)' /\ WillBeRead(g)'
      BY <1>1, <3>1, <3>2 DEF SameSide, WillBeRead, ShouldRefresh, Exists, InFlight
    <3>4. \A c \in Callers : Known(c, g)'
      BY <1>1, <3>1, <3>2 DEF Known, ListingKnown, SkippedCurrent, ContentKnown, InstalledCurrent,
                              Unsettled, Exists
    <3>5. QED
      BY <3>3, <3>4
  <2>2. CASE g = f
    <3>1. CASE DeleteFile(f)
      <4>1. ~Exists(g)'
        BY <2>2, <3>1 DEF DeleteFile, Exists, Absent, RefreshInv, TypeOK
      <4>2. QED
        BY <4>1 DEF SameSide, WillBeRead, Known, ListingKnown, SkippedCurrent, ContentKnown,
                    InstalledCurrent, Unsettled
    <3>2. CASE WriteFile(f)
      <4>1. /\ folder'[g].mtime > refreshedAt'
            /\ \A c \in Callers : InFlight(c)' => folder'[g].mtime > call'[c].startedAt
        BY <1>1, <1>3, <2>2, <3>2, Rewritten DEF RefreshInv, InFlight
      <4>2. SameSide(g)' /\ WillBeRead(g)'
        BY <4>1 DEF SameSide, WillBeRead, ShouldRefresh
      <4>3. \A c \in Callers : InFlight(c)' => Unsettled(c, g)'
        BY <4>1 DEF Unsettled
      <4>4. \A c \in Callers : Known(c, g)'
        BY <4>3 DEF Known, ListingKnown, SkippedCurrent, ContentKnown, InstalledCurrent, InFlight
      <4>5. QED
        BY <4>2, <4>4
    <3>3. QED
      BY <3>1, <3>2
  <2>3. QED
    BY <2>1, <2>2
<1>4. QED
  BY <1>2, <1>3 DEF RefreshInv

-------------------------------------------------------------------------------

\* The refresh c goes on or gives up, and leaves the memory alone.
QuietStep(c, r) ==
    /\ call' = [call EXCEPT ![c] = r]
    /\ UNCHANGED <<clock, folder, attachments, refreshedAt>>

\* Such a step keeps the invariant when the refresh knows the files that are not excused.
LEMMA QuietStepKeeps ==
  ASSUME RefreshInv, TypeOK', NEW c \in Callers, NEW r, QuietStep(c, r),
         excused \subseteq excused', r.startedAt <= clock,
         \A f \in Files \ excused' : SameSide(f)' /\ Known(c, f)'
  PROVE  RefreshInv'
<1>1. /\ call'[c] = r /\ \A d \in Callers \ {c} : call'[d] = call[d]
      /\ UNCHANGED <<clock, folder, attachments, refreshedAt>>
  BY DEF QuietStep, RefreshInv, TypeOK
<1>2. ClocksBehind'
  BY <1>1 DEF RefreshInv, ClocksBehind
<1>3. ASSUME NEW f \in Files \ excused'
      PROVE  WillBeRead(f)' /\ \A d \in Callers : Known(d, f)'
  <2>1. WillBeRead(f) /\ \A d \in Callers : Known(d, f)
    BY DEF RefreshInv
  <2>2. WillBeRead(f)'
    BY <1>1, <2>1 DEF WillBeRead, ShouldRefresh, Exists
  <2>3. \A d \in Callers \ {c} : Known(d, f)'
    BY <1>1, <2>1 DEF Known, ListingKnown, SkippedCurrent, ContentKnown, InstalledCurrent,
                      Unsettled, Exists
  <2>4. QED
    BY <2>2, <2>3
<1>4. QED
  BY <1>2, <1>3 DEF RefreshInv

\* A refresh in flight that goes on remembers when it began.
LEMMA SameSideKept ==
  ASSUME RefreshInv, NEW c \in Callers, NEW r, QuietStep(c, r), InFlight(c),
         r.pc = "idle" \/ r.startedAt = call[c].startedAt, NEW f \in Files \ excused
  PROVE  SameSide(f)'
<1>1. /\ call'[c] = r /\ \A d \in Callers \ {c} : call'[d] = call[d]
      /\ UNCHANGED <<folder, refreshedAt>>
  BY DEF QuietStep, RefreshInv, TypeOK
<1>2. \A d \in Callers : InFlight(d)' => InFlight(d) /\ call'[d].startedAt = call[d].startedAt
  BY <1>1 DEF InFlight
<1>3. SameSide(f)
  BY DEF RefreshInv
<1>4. QED
  BY <1>1, <1>2, <1>3 DEF SameSide, Exists

\* Starting a refresh keeps the invariant: what was written during another one that is in
\* flight is excused.
LEMMA StartStep ==
  ASSUME RefreshInv, TypeOK', NEW c \in Callers, Start(c)
  PROVE  RefreshInv'
<1>1. PICK r : r = [call[c] EXCEPT !.pc = "readdir", !.startedAt = clock]
  OBVIOUS
<1>2. QuietStep(c, r) /\ r.pc = "readdir" /\ r.startedAt = clock
  BY <1>1 DEF Start, QuietStep, storage, memory, RefreshInv, TypeOK, Call
<1>3. /\ call'[c] = r /\ \A d \in Callers \ {c} : call'[d] = call[d]
      /\ UNCHANGED <<clock, folder, refreshedAt>>
  BY <1>2 DEF QuietStep, RefreshInv, TypeOK
<1>4. excused' = excused \cup UNION {WrittenDuring(d) : d \in {x \in Callers : InFlight(x)}}
  BY DEF Start
<1>5. ASSUME NEW f \in Files \ excused'
      PROVE  SameSide(f)' /\ Known(c, f)'
  <2>1. \A d \in Callers : InFlight(d) => f \notin WrittenDuring(d)
    BY <1>4
  <2>2. \A d \in Callers \ {c} : InFlight(d)' /\ Exists(f)' => ~(folder'[f].mtime > call'[d].startedAt)
    BY <1>3, <2>1 DEF WrittenDuring, InFlight, Exists
  <2>3. /\ folder[f].mtime \in Int /\ clock \in Nat /\ refreshedAt \in Nat /\ refreshedAt <= clock
        /\ \A d \in Callers : call[d].startedAt \in Nat /\ call[d].startedAt <= clock
    BY DEF RefreshInv, TypeOK, ClocksBehind, File, Call
  <2>4. SameSide(f)'
    BY <1>2, <1>3, <2>2, <2>3 DEF SameSide
  <2>5. Known(c, f)'
    BY <1>2, <1>3 DEF Known, ListingKnown, SkippedCurrent, ContentKnown, InstalledCurrent
  <2>6. QED
    BY <2>4, <2>5
<1>6. r.startedAt <= clock
  BY <1>2 DEF RefreshInv, TypeOK
<1>7. QED
  BY <1>2, <1>4, <1>5, <1>6, QuietStepKeeps

\* Listing the names keeps the invariant.
LEMMA ReadDirStep ==
  ASSUME RefreshInv, TypeOK', NEW c \in Callers, ReadDir(c)
  PROVE  RefreshInv'
<1>1. PICK names : names = {f \in Files : Exists(f)}
  OBVIOUS
<1>2. PICK r : r = [call[c] EXCEPT !.pc = "stat", !.names = names, !.pending = names]
  OBVIOUS
<1>3. /\ QuietStep(c, r) /\ UNCHANGED excused /\ InFlight(c)
      /\ r.pc = "stat" /\ r.names = names /\ r.pending = names /\ r.startedAt = call[c].startedAt
  BY <1>1, <1>2 DEF ReadDir, QuietStep, InFlight, storage, memory, RefreshInv, TypeOK, Call
<1>4. call'[c] = r /\ folder' = folder
  BY <1>3 DEF QuietStep, RefreshInv, TypeOK
<1>5. ASSUME NEW f \in Files \ excused'
      PROVE  SameSide(f)' /\ Known(c, f)'
  <2>1. Known(c, f)'
    BY <1>1, <1>3, <1>4 DEF Known, ListingKnown, SkippedCurrent, ContentKnown, InstalledCurrent,
                            Unsettled, Exists
  <2>2. QED
    BY <1>3, <2>1, SameSideKept
<1>6. r.startedAt <= clock
  BY <1>3 DEF RefreshInv, ClocksBehind
<1>7. QED
  BY <1>3, <1>5, <1>6, QuietStepKeeps

\* Giving up keeps the invariant.
LEMMA GiveUpStep ==
  ASSUME RefreshInv, TypeOK', NEW c \in Callers, FileGone(c) \/ Fail(c)
  PROVE  RefreshInv'
<1>1. QuietStep(c, NoCall) /\ UNCHANGED excused /\ InFlight(c) /\ NoCall.pc = "idle" /\ NoCall.startedAt = 0
  BY DEF FileGone, Fail, QuietStep, NoCall, InFlight, storage, memory
<1>2. call'[c] = NoCall
  BY <1>1 DEF QuietStep, RefreshInv, TypeOK
<1>3. ASSUME NEW f \in Files \ excused'
      PROVE  SameSide(f)' /\ Known(c, f)'
  <2>1. Known(c, f)'
    BY <1>1, <1>2 DEF Known, ListingKnown, SkippedCurrent, ContentKnown, InstalledCurrent
  <2>2. QED
    BY <1>1, <2>1, SameSideKept
<1>4. NoCall.startedAt <= clock
  BY <1>1 DEF RefreshInv, TypeOK
<1>5. QED
  BY <1>1, <1>3, <1>4, QuietStepKeeps

\* Reading a stamp keeps the invariant.
LEMMA StatStep ==
  ASSUME RefreshInv, TypeOK', NEW c \in Callers, NEW f \in Files, Stat(c, f)
  PROVE  RefreshInv'
<1>1. PICK r : r = [call[c] EXCEPT !.stamp[f] = folder[f].mtime, !.pending = call[c].pending \ {f}]
  OBVIOUS
<1>2. /\ QuietStep(c, r) /\ UNCHANGED excused /\ InFlight(c)
      /\ call[c].pc = "stat" /\ r.pc = "stat" /\ r.names = call[c].names
      /\ r.startedAt = call[c].startedAt /\ r.pending = call[c].pending \ {f}
      /\ r.stamp[f] = folder[f].mtime /\ \A g \in Files \ {f} : r.stamp[g] = call[c].stamp[g]
  BY <1>1 DEF Stat, QuietStep, InFlight, storage, memory, RefreshInv, TypeOK, Call
<1>3. call'[c] = r /\ folder' = folder
  BY <1>2 DEF QuietStep, RefreshInv, TypeOK
<1>4. ASSUME NEW g \in Files \ excused'
      PROVE  SameSide(g)' /\ Known(c, g)'
  <2>1. Known(c, g)
    BY <1>2 DEF RefreshInv
  <2>2. ListingKnown(c, g)'
    BY <1>2, <1>3, <2>1 DEF Known, ListingKnown, Unsettled, Exists
  <2>3. Known(c, g)'
    BY <1>2, <1>3, <2>2 DEF Known, SkippedCurrent, ContentKnown, InstalledCurrent
  <2>4. QED
    BY <1>2, <2>3, SameSideKept
<1>5. r.startedAt <= clock
  BY <1>2 DEF RefreshInv, ClocksBehind
<1>6. QED
  BY <1>2, <1>4, <1>5, QuietStepKeeps

\* Reading a file keeps the invariant.
LEMMA ReadStep ==
  ASSUME RefreshInv, TypeOK', NEW c \in Callers, NEW f \in Files, Read(c, f)
  PROVE  RefreshInv'
<1> DEFINE left == call[c].pending \ {f}
<1>1. PICK r : r = [call[c] EXCEPT !.got[f] = folder[f].content,
                                   !.pc = IF left = {} THEN "compile" ELSE "read",
                                   !.pending = IF left = {} THEN call[c].selected ELSE left]
  OBVIOUS
<1>2. /\ QuietStep(c, r) /\ UNCHANGED excused /\ InFlight(c) /\ call[c].pc = "read"
      /\ r.names = call[c].names /\ r.selected = call[c].selected /\ r.startedAt = call[c].startedAt
      /\ r.got[f] = folder[f].content /\ \A g \in Files \ {f} : r.got[g] = call[c].got[g]
  BY <1>1 DEF Read, QuietStep, InFlight, storage, memory, RefreshInv, TypeOK, Call
<1>3. \/ r.pc = "read" /\ r.pending = left
      \/ r.pc = "compile" /\ r.pending = call[c].selected /\ left = {}
  <2>1. call[c] \in Call
    BY DEF RefreshInv, TypeOK
  <2>2. CASE left = {}
    BY <1>1, <2>1, <2>2 DEF Call
  <2>3. CASE left # {}
    BY <1>1, <2>1, <2>3 DEF Call
  <2>4. QED
    BY <2>2, <2>3
<1>4. call'[c] = r /\ folder' = folder /\ attachments' = attachments
  BY <1>2 DEF QuietStep, RefreshInv, TypeOK
<1>5. ASSUME NEW g \in Files \ excused'
      PROVE  SameSide(g)' /\ Known(c, g)'
  <2>1. Known(c, g)
    BY <1>2 DEF RefreshInv
  <2>2. Unsettled(c, g)' <=> Unsettled(c, g)
    BY <1>2, <1>4 DEF Unsettled, Exists
  <2>3. ListingKnown(c, g)' /\ SkippedCurrent(c, g)'
    BY <1>2, <1>3, <1>4, <2>1, <2>2 DEF Known, ListingKnown, SkippedCurrent
  <2>4. ContentKnown(c, g)'
    BY <1>2, <1>3, <1>4, <2>1, <2>2 DEF Known, ContentKnown
  <2>5. InstalledCurrent(c, g)'
    BY <1>3, <1>4, <1>2 DEF InstalledCurrent
  <2>6. QED
    BY <1>2, <2>3, <2>4, <2>5, SameSideKept DEF Known
<1>6. r.startedAt <= clock
  BY <1>2 DEF RefreshInv, ClocksBehind
<1>7. QED
  BY <1>2, <1>5, <1>6, QuietStepKeeps

-------------------------------------------------------------------------------

\* A step of the refresh c that changes the memory keeps the invariant, when it leaves of
\* each file what was there, what the folder holds, or what is unsettled for c.
LEMMA MemoryStep ==
  ASSUME RefreshInv, TypeOK', NEW c \in Callers, NEW r, call' = [call EXCEPT ![c] = r],
         UNCHANGED <<clock, folder, excused>>, InFlight(c),
         r = NoCall \/ r.startedAt = call[c].startedAt,
         refreshedAt' = refreshedAt \/ refreshedAt' = call[c].startedAt,
         \A f \in Files \ excused :
            /\ \/ attachments'[f] = attachments[f]
               \/ attachments'[f] = folder[f].content
               \/ Unsettled(c, f)
            /\ WillBeRead(f)' /\ Known(c, f)'
  PROVE  RefreshInv'
<1>1. call'[c] = r /\ \A d \in Callers \ {c} : call'[d] = call[d]
  BY DEF RefreshInv, TypeOK
<1>2. NoCall.pc = "idle" /\ NoCall.startedAt = 0
  BY DEF NoCall
<1>3. \A d \in Callers : InFlight(d)' => InFlight(d) /\ call'[d].startedAt = call[d].startedAt
  BY <1>1, <1>2 DEF InFlight
<1>4. ClocksBehind'
  BY <1>1, <1>2 DEF RefreshInv, ClocksBehind, TypeOK
<1>5. ASSUME NEW f \in Files \ excused'
      PROVE  SameSide(f)' /\ WillBeRead(f)' /\ \A d \in Callers : Known(d, f)'
  <2>1. f \in Files \ excused /\ SameSide(f) /\ \A d \in Callers : Known(d, f)
    BY DEF RefreshInv
  <2>2. SameSide(f)'
    BY <1>3, <2>1 DEF SameSide, Exists
  <2>3. ASSUME NEW d \in Callers \ {c}
        PROVE  Known(d, f)'
    <3>1. Unsettled(d, f)' <=> Unsettled(d, f)
      BY <1>1 DEF Unsettled, Exists
    <3>2. InFlight(d) /\ Unsettled(c, f) => Unsettled(d, f)
      BY <2>1 DEF SameSide, Unsettled
    <3>3. \/ attachments'[f] = attachments[f]
          \/ attachments'[f] = folder[f].content
          \/ InFlight(d) => Unsettled(d, f)
      BY <2>1, <3>2
    <3>4. ListingKnown(d, f)' /\ ContentKnown(d, f)'
      BY <1>1, <2>1, <3>1 DEF Known, ListingKnown, ContentKnown
    <3>5. SkippedCurrent(d, f)' /\ InstalledCurrent(d, f)'
      BY <1>1, <2>1, <3>1, <3>3 DEF Known, SkippedCurrent, InstalledCurrent, InFlight
    <3>6. QED
      BY <3>4, <3>5 DEF Known
  <2>4. QED
    BY <2>1, <2>2, <2>3
<1>6. QED
  BY <1>4, <1>5 DEF RefreshInv

\* The end of a refresh keeps the invariant, when every listed file in memory is
\* what the folder holds or has been written since the refresh began.
LEMMA ConcludeStep ==
  ASSUME RefreshInv, TypeOK', NEW c \in Callers, NEW loaded,
         UNCHANGED <<clock, folder, excused>>, Conclude(c, loaded),
         call[c].pc \in {"stat", "read", "compile"},
         \A f \in (call[c].names \cap Files) \ excused :
            Unsettled(c, f) \/ loaded[f] = folder[f].content
  PROVE  RefreshInv'
<1>1. call' = [call EXCEPT ![c] = NoCall] /\ refreshedAt' = call[c].startedAt /\ InFlight(c)
  BY DEF Conclude, InFlight
<1>2. call'[c] = NoCall /\ NoCall.pc = "idle"
  BY <1>1 DEF RefreshInv, TypeOK, NoCall
<1>3. ASSUME NEW f \in Files \ excused
      PROVE  /\ attachments'[f] = folder[f].content \/ Unsettled(c, f)
             /\ WillBeRead(f)' /\ Known(c, f)'
  <2>1. attachments'[f] = IF f \in call[c].names THEN loaded[f] ELSE Absent
    BY DEF Conclude
  <2>2. f \notin call[c].names => Unsettled(c, f)
    BY DEF RefreshInv, Known, ListingKnown
  <2>3. attachments'[f] = folder[f].content \/ Unsettled(c, f)
    BY <2>1, <2>2
  <2>4. WillBeRead(f)'
    BY <1>1, <2>3 DEF WillBeRead, ShouldRefresh, Unsettled, Exists
  <2>5. Known(c, f)'
    BY <1>2 DEF Known, ListingKnown, SkippedCurrent, ContentKnown, InstalledCurrent
  <2>6. QED
    BY <2>3, <2>4, <2>5
<1>4. QED
  BY <1>1, <1>3, MemoryStep

\* Choosing what to read keeps the invariant: a listed file is skipped only when
\* its stamp says that the copy in memory is current.
LEMMA SelectStep ==
  ASSUME RefreshInv, TypeOK', NEW c \in Callers, Select(c)
  PROVE  RefreshInv'
<1>1. ASSUME NEW f \in (call[c].names \cap Files) \ excused, f \notin ToRefresh(c)
      PROVE  Unsettled(c, f) \/ attachments[f] = folder[f].content
  <2>1. WillBeRead(f) /\ ListingKnown(c, f)
    BY DEF RefreshInv, Known
  <2>2. QED
    BY <1>1, <2>1 DEF Select, ListingKnown, WillBeRead, ShouldRefresh, ToRefresh, Unsettled
<1>2. UNCHANGED <<clock, folder, excused>> /\ call[c].pc = "stat" /\ InFlight(c)
  BY DEF Select, storage, InFlight
<1>3. CASE ToRefresh(c) = {}
  BY <1>1, <1>2, <1>3, ConcludeStep DEF Select
<1>4. CASE ToRefresh(c) # {}
  <2>1. PICK r : r = [call[c] EXCEPT !.pc = "read", !.stamp = NoCall.stamp,
                                     !.selected = ToRefresh(c), !.pending = ToRefresh(c)]
    OBVIOUS
  <2>2. /\ QuietStep(c, r) /\ r.pc = "read" /\ r.names = call[c].names
        /\ r.startedAt = call[c].startedAt /\ r.selected = ToRefresh(c) /\ r.pending = ToRefresh(c)
    BY <1>2, <1>4, <2>1 DEF Select, QuietStep, memory, RefreshInv, TypeOK, Call
  <2>3. call'[c] = r /\ folder' = folder /\ attachments' = attachments
    BY <2>2 DEF QuietStep, RefreshInv, TypeOK
  <2>4. ASSUME NEW f \in Files \ excused'
        PROVE  SameSide(f)' /\ Known(c, f)'
    <3>1. Known(c, f) /\ (Unsettled(c, f)' <=> Unsettled(c, f))
      BY <1>2, <2>2, <2>3 DEF RefreshInv, Unsettled, Exists
    <3>2. ListingKnown(c, f)' /\ SkippedCurrent(c, f)'
      BY <1>1, <1>2, <2>2, <2>3, <3>1 DEF Known, ListingKnown, SkippedCurrent
    <3>3. ContentKnown(c, f)' /\ InstalledCurrent(c, f)'
      BY <2>2, <2>3 DEF ContentKnown, InstalledCurrent
    <3>4. QED
      BY <1>2, <2>2, <3>2, <3>3, SameSideKept DEF Known
  <2>5. r.startedAt <= clock
    BY <2>2 DEF RefreshInv, ClocksBehind
  <2>6. QED
    BY <1>2, <2>2, <2>4, <2>5, QuietStepKeeps
<1>5. QED
  BY <1>3, <1>4

\* Installing a compiled policy keeps the invariant.
LEMMA InstallStep ==
  ASSUME RefreshInv, TypeOK', NEW c \in Callers, NEW f \in Files, Install(c, f)
  PROVE  RefreshInv'
<1> DEFINE loaded == [attachments EXCEPT ![f] = call[c].got[f]]
           left == call[c].pending \ {f}
<1>1. /\ UNCHANGED <<clock, folder, excused>> /\ InFlight(c)
      /\ f \in call[c].pending /\ call[c].pc = "compile"
      /\ call[c].pending \subseteq call[c].selected /\ call[c].selected \subseteq call[c].names
      /\ loaded[f] = call[c].got[f] /\ \A g \in Files \ {f} : loaded[g] = attachments[g]
  BY DEF Install, storage, InFlight, RefreshInv, TypeOK, WithinListing
<1>2. \A g \in Files \ excused : Known(c, g) /\ SameSide(g) /\ WillBeRead(g)
  BY DEF RefreshInv
<1>3. f \notin excused => Unsettled(c, f) \/ loaded[f] = folder[f].content
  BY <1>1, <1>2 DEF Known, ContentKnown
<1>4. \A g \in (call[c].names \cap Files) \ excused : g \notin left =>
         Unsettled(c, g) \/ loaded[g] = folder[g].content
  BY <1>1, <1>2, <1>3 DEF Known, SkippedCurrent, InstalledCurrent
<1>5. CASE left = {}
  <2>1. Conclude(c, loaded)
    BY <1>5 DEF Install
  <2>2. QED
    BY <1>1, <1>4, <1>5, <2>1, ConcludeStep
<1>6. CASE left # {}
  <2>1. PICK r : r = [call[c] EXCEPT !.pending = left]
    OBVIOUS
  <2>2. /\ call' = [call EXCEPT ![c] = r] /\ attachments' = loaded /\ refreshedAt' = refreshedAt
        /\ r.pc = "compile" /\ r.names = call[c].names /\ r.selected = call[c].selected
        /\ r.startedAt = call[c].startedAt /\ r.got = call[c].got /\ r.pending = left
    BY <1>6, <2>1 DEF Install, RefreshInv, TypeOK, Call
  <2>3. call'[c] = r
    BY <2>2 DEF RefreshInv, TypeOK
  <2> HIDE DEF loaded, left
  <2>4. ASSUME NEW g \in Files \ excused
        PROVE  /\ attachments'[g] = attachments[g] \/ attachments'[g] = folder[g].content \/ Unsettled(c, g)
               /\ WillBeRead(g)' /\ Known(c, g)'
    <3>1. attachments'[g] = attachments[g] \/ attachments'[g] = folder[g].content \/ Unsettled(c, g)
      BY <1>1, <1>3, <2>2
    <3>2. WillBeRead(g)'
      BY <1>1, <1>2, <2>2, <3>1 DEF WillBeRead, ShouldRefresh, SameSide, Unsettled, Exists
    <3>3. Unsettled(c, g)' <=> Unsettled(c, g)
      BY <1>1, <2>2, <2>3 DEF Unsettled, Exists
    <3>4. ListingKnown(c, g)' /\ ContentKnown(c, g)'
      BY <1>1, <1>2, <2>2, <2>3, <3>3 DEF Known, ListingKnown, ContentKnown
    <3>5. left \subseteq call[c].selected
      BY <1>1 DEF left
    <3>6. SkippedCurrent(c, g)' /\ InstalledCurrent(c, g)'
      BY <1>1, <1>4, <2>2, <2>3, <3>3, <3>5 DEF SkippedCurrent, InstalledCurrent
    <3>7. QED
      BY <3>1, <3>2, <3>4, <3>6 DEF Known
  <2>5. QED
    BY <1>1, <2>2, <2>4, MemoryStep
<1>7. QED
  BY <1>5, <1>6

\* A restarted gateway has nothing in memory, so it will read every file.
LEMMA RestartStep ==
  ASSUME RefreshInv, TypeOK', Restart
  PROVE  RefreshInv'
<1>1. /\ UNCHANGED <<clock, folder>>
      /\ \A f \in Files : attachments'[f] = Absent
      /\ refreshedAt' = Never
      /\ \A c \in Callers : call'[c] = NoCall
  BY DEF Restart, storage
<1>2. NoCall.pc = "idle" /\ NoCall.startedAt = 0
  BY DEF NoCall
<1>3. ClocksBehind'
  BY <1>1, <1>2 DEF RefreshInv, TypeOK, ClocksBehind, Never
<1>4. ASSUME NEW f \in Files
      PROVE  SameSide(f)' /\ WillBeRead(f)' /\ \A c \in Callers : Known(c, f)'
  BY <1>1, <1>2 DEF SameSide, InFlight, WillBeRead, ShouldRefresh,
                    Known, ListingKnown, SkippedCurrent, ContentKnown, InstalledCurrent
<1>5. QED
  BY <1>3, <1>4 DEF RefreshInv

\* What a refresh in flight has listed, skipped, read and installed of a file is what the
\* folder holds, or the file was written after it began; and, for files that are not
\* excused, after every other refresh in flight began (refreshPolicyAttachments).
THEOREM RefreshInvariant == Spec => []RefreshInv
<1>1. Init => RefreshInv
  <2> SUFFICES ASSUME Init, TypeOK
               PROVE  RefreshInv
    BY InitTypeOK
  <2>1. /\ \A c \in Callers : call[c] = NoCall
        /\ \A f \in Files : attachments[f] = Absent
        /\ clock = 1 /\ refreshedAt = Never
    BY DEF Init
  <2>2. NoCall.pc = "idle" /\ NoCall.startedAt = 0
    BY DEF NoCall
  <2>3. QED
    BY <2>1, <2>2 DEF RefreshInv, ClocksBehind, SameSide, InFlight, WillBeRead, ShouldRefresh, Known,
                ListingKnown, SkippedCurrent, ContentKnown, InstalledCurrent, Never
<1>2. RefreshInv /\ TypeOK' /\ [Next]_vars => RefreshInv'
  <2> SUFFICES ASSUME RefreshInv, TypeOK', [Next]_vars
               PROVE  RefreshInv'
    OBVIOUS
  <2>1. ASSUME NEW f \in Files, WriteFile(f) \/ DeleteFile(f)
        PROVE  RefreshInv'
    BY <2>1, FolderStep
  <2>2. ASSUME NEW c \in Callers, Start(c) \/ ReadDir(c) \/ FileGone(c) \/ Fail(c)
        PROVE  RefreshInv'
    BY <2>2, StartStep, ReadDirStep, GiveUpStep
  <2>3. ASSUME NEW c \in Callers, Select(c)
        PROVE  RefreshInv'
    BY <2>3, SelectStep
  <2>4. ASSUME NEW c \in Callers, NEW f \in Files,
               Stat(c, f) \/ Read(c, f) \/ Install(c, f)
        PROVE  RefreshInv'
    BY <2>4, StatStep, ReadStep, InstallStep
  <2>5. CASE Restart
    BY <2>5, RestartStep
  <2>6. CASE UNCHANGED vars
    BY <2>6 DEF vars, RefreshInv, ClocksBehind, SameSide, InFlight, WillBeRead, ShouldRefresh, Known,
                ListingKnown, SkippedCurrent, ContentKnown, InstalledCurrent, Exists, Unsettled
  <2>7. QED
    BY <2>1, <2>2, <2>3, <2>4, <2>5, <2>6 DEF Next, Step
<1>3. QED
  BY <1>1, <1>2, TypeCorrect, PTL DEF Spec

\* No update of a policy is missed but for the two exceptions: whatever the interleaving of
\* writes, deletions, failures and restarts with the steps of any number of refreshes, and
\* whatever the clocks, a copy in memory of a file that is not excused and that differs
\* from the folder is read again by the next refresh (shouldRefreshPolicyAttachment).
THEOREM NoUpdateMissed == Spec => []NoMissedUpdate
<1>1. RefreshInv => NoMissedUpdate
  BY DEF RefreshInv, NoMissedUpdate
<1>2. QED
  BY <1>1, RefreshInvariant, PTL

===============================================================================
