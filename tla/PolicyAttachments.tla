------------------------- MODULE PolicyAttachments -------------------------
(***************************************************************************)
(* The in-memory copy a gateway keeps of the compiled policies (wasm       *)
(* files) of the attachments folder, and the refresh that brings it up to  *)
(* date: ResourceRepository.refreshPolicyAttachments and the helpers it    *)
(* calls (services/src/modules/resource-repository/resource-repository.ts).*)
(*                                                                         *)
(* A refresh is a chain of awaits: readdir, one stat per file, one read    *)
(* per selected file, one compilation per file read, and the bookkeeping   *)
(* that follows the last one without an await.  Each piece of code between *)
(* two awaits is one action.  The registry writes and deletes files in     *)
(* between; a second call of fetchLatest may be in flight as well, because *)
(* neither the poll of setInterval nor POST /updateSchema waits for the    *)
(* other.                                                                  *)
(*                                                                         *)
(* A file's content is the number of the write that produced it; 0 stands  *)
(* for "no such file" in the folder and "no such key" in memory.           *)
(***************************************************************************)
EXTENDS Integers

CONSTANTS
    Files,       \* names of the wasm files
    Callers,     \* fetchLatest calls that may be in flight at once
    OldFiles,    \* those that are in the folder when the gateway is started first
    Elapsed,     \* how far the clock may move between an event and the next write
    Lag,         \* how far a file's lastModified may lie behind the gateway's clock
    MaxWrites,   \* bound on the writes to the folder, that of the old files included
    MaxFailures  \* bound on storage errors, compilation errors and restarts

ASSUME ElapsedAssumption == Elapsed \subseteq Nat
ASSUME LagAssumption == Lag \subseteq Int
ASSUME BoundsAssumption == MaxWrites \in Nat /\ MaxFailures \in Nat

VARIABLES
    clock,        \* Date.now() of the gateway
    writes,       \* writes to the folder so far
    failures,     \* failures so far
    folder,       \* the attachments folder in storage
    attachments,  \* this.policyAttachments.attachments
    refreshedAt,  \* this.policyAttachments.refreshedAt
    call,         \* the local state of each refresh in flight
    excused       \* ghost: files that a refresh may skip although they have changed

storage == <<clock, writes, folder>>
memory == <<attachments, refreshedAt>>
vars == <<clock, writes, failures, folder, attachments, refreshedAt, call, excused>>

Absent == 0   \* content of a file that is not there
Never == 0    \* refreshedAt of a process that has not refreshed yet

File == [content : Nat, mtime : Int]

\* "pending" is what the current Promise.all or loop still has to do.
Call == [pc : {"idle", "readdir", "stat", "read", "compile"},
         startedAt : Nat,             \* newRefreshedAt
         names : SUBSET Files,        \* allAttachments, by name
         stamp : [Files -> Int],      \* ... and their lastModified
         selected : SUBSET Files,     \* attachmentsToRefresh
         got : [Files -> Nat],        \* newAttachments
         pending : SUBSET Files]

NoCall == [pc |-> "idle", startedAt |-> 0, names |-> {}, stamp |-> [f \in Files |-> 0],
           selected |-> {}, got |-> [f \in Files |-> Absent], pending |-> {}]

Init ==
    /\ clock = 1
    /\ writes = 1
    /\ failures = 0
    /\ folder = [f \in Files |-> IF f \in OldFiles THEN [content |-> 1, mtime |-> 1]
                                                   ELSE [content |-> Absent, mtime |-> 0]]
    /\ attachments = [f \in Files |-> Absent]
    /\ refreshedAt = Never
    /\ call = [c \in Callers |-> NoCall]
    /\ excused = {}

----------------------------------------------------------------------------
(* The folder, as the registry changes it. *)

Exists(f) == folder[f].content # Absent
InFlight(c) == call[c].pc # "idle"

\* A refresh has begun at t or later: shouldRefreshPolicyAttachment cannot tell what was
\* written at t from what that refresh has seen.
HasBegunSince(t) ==
    \/ refreshedAt >= t
    \/ \E c \in Callers : InFlight(c) /\ call[c].startedAt >= t

\* writePolicyAttachment: the storage stamps the file with its own clock, which may be
\* coarser than the gateway's or behind it.  A file whose stamp lies before a refresh that
\* has begun is excused, until it is written again with a later one.
WriteFile(f) ==
    /\ writes < MaxWrites
    /\ writes' = writes + 1
    /\ \E e \in Elapsed, l \in Lag :
        /\ clock' = clock + e
        /\ folder' = [folder EXCEPT ![f] = [content |-> writes + 1,
                                            mtime |-> clock + e - l]]
        /\ excused' = IF HasBegunSince(clock + e - l) THEN excused \cup {f} ELSE excused \ {f}
    /\ UNCHANGED <<failures, memory, call>>

\* deletePolicyAttachment
DeleteFile(f) ==
    /\ Exists(f)
    /\ folder' = [folder EXCEPT ![f] = [content |-> Absent, mtime |-> 0]]
    /\ UNCHANGED <<clock, writes, failures, memory, call, excused>>

----------------------------------------------------------------------------
(* A refresh. *)

\* shouldRefreshPolicyAttachment
ShouldRefresh(f, lastModified) ==
    \/ attachments[f] = Absent
    \/ refreshedAt = Never
    \/ lastModified > refreshedAt

\* What was written while the refresh d was in flight.
WrittenDuring(d) == {f \in Files : Exists(f) /\ folder[f].mtime > call[d].startedAt}

\* The refresh starts: newRefreshedAt is taken before the folder is listed.  Another one
\* that is still in flight may install what it has read of a file before it was rewritten,
\* after this one has seen the file: such a file is excused.
Start(c) ==
    /\ call[c].pc = "idle"
    /\ call' = [call EXCEPT ![c] = [@ EXCEPT !.pc = "readdir", !.startedAt = clock]]
    /\ excused' = excused \cup UNION {WrittenDuring(d) : d \in {x \in Callers : InFlight(x)}}
    /\ UNCHANGED <<storage, failures, memory>>

\* listFiles: the names first ...
ReadDir(c) ==
    /\ call[c].pc = "readdir"
    /\ LET names == {f \in Files : Exists(f)}
       IN call' = [call EXCEPT ![c] = [@ EXCEPT !.pc = "stat", !.names = names,
                                                 !.pending = names]]
    /\ UNCHANGED <<storage, failures, memory, excused>>

\* ... then the lastModified of each; a file deleted meanwhile is an error.
Stat(c, f) ==
    /\ call[c].pc = "stat"
    /\ f \in call[c].pending
    /\ Exists(f)
    /\ call' = [call EXCEPT ![c] = [@ EXCEPT !.stamp[f] = folder[f].mtime,
                                             !.pending = call[c].pending \ {f}]]
    /\ UNCHANGED <<storage, failures, memory, excused>>

\* attachmentsToRefresh
ToRefresh(c) == {f \in call[c].names : ShouldRefresh(f, call[c].stamp[f])}

\* The end of a refresh, run after its last await with "loaded" in memory:
\* drop what is no longer in the folder, and remember when the refresh began.
Conclude_DateAtEnd(c, loaded) ==
    /\ attachments' = [f \in Files |-> IF f \in call[c].names THEN loaded[f] ELSE Absent]
    /\ refreshedAt' = clock
    /\ call' = [call EXCEPT ![c] = NoCall]

Conclude_KeepDeleted(c, loaded) ==
    /\ attachments' = loaded
    /\ refreshedAt' = call[c].startedAt
    /\ call' = [call EXCEPT ![c] = NoCall]

Conclude(c, loaded) ==
    /\ attachments' = [f \in Files |-> IF f \in call[c].names THEN loaded[f] ELSE Absent]
    /\ refreshedAt' = call[c].startedAt
    /\ call' = [call EXCEPT ![c] = NoCall]

\* The list is complete: pick the files to read, or finish at once if there is none.  The
\* dates are not used again.
Select(c) ==
    /\ call[c].pc = "stat"
    /\ call[c].pending = {}
    /\ \/ /\ ToRefresh(c) = {}
          /\ Conclude(c, attachments)
       \/ /\ ToRefresh(c) # {}
          /\ call' = [call EXCEPT ![c] = [@ EXCEPT !.pc = "read",
                                                   !.stamp = NoCall.stamp,
                                                   !.selected = ToRefresh(c),
                                                   !.pending = ToRefresh(c)]]
          /\ UNCHANGED memory
    /\ UNCHANGED <<storage, failures, excused>>

\* getPolicyAttachments reads the selected files concurrently.
Read(c, f) ==
    /\ call[c].pc = "read"
    /\ f \in call[c].pending
    /\ Exists(f)
    /\ LET left == call[c].pending \ {f}
       IN call' = [call EXCEPT ![c] =
                    [@ EXCEPT !.got[f] = folder[f].content,
                              !.pc = IF left = {} THEN "compile" ELSE "read",
                              !.pending = IF left = {} THEN call[c].selected ELSE left]]
    /\ UNCHANGED <<storage, failures, memory, excused>>

\* The loop that compiles and installs what was read, one file per await.
Install(c, f) ==
    /\ call[c].pc = "compile"
    /\ f \in call[c].pending
    /\ LET loaded == [attachments EXCEPT ![f] = call[c].got[f]]
           left == call[c].pending \ {f}
       IN \/ /\ left = {}
             /\ Conclude(c, loaded)
          \/ /\ left # {}
             /\ attachments' = loaded
             /\ call' = [call EXCEPT ![c] = [@ EXCEPT !.pending = left]]
             /\ UNCHANGED refreshedAt
    /\ UNCHANGED <<storage, failures, excused>>

\* A file listed or selected was deleted before its turn: the refresh rejects.
FileGone(c) ==
    /\ call[c].pc \in {"stat", "read"}
    /\ \E f \in call[c].pending : ~Exists(f)
    /\ call' = [call EXCEPT ![c] = NoCall]
    /\ UNCHANGED <<storage, failures, memory, excused>>

\* The storage or the compiler fails at some await: the refresh rejects, what it
\* installed so far stays.
Fail(c) ==
    /\ call[c].pc # "idle"
    /\ failures < MaxFailures
    /\ failures' = failures + 1
    /\ call' = [call EXCEPT ![c] = NoCall]
    /\ UNCHANGED <<storage, memory, excused>>

\* The gateway process exits and a new one starts.
Restart ==
    /\ failures < MaxFailures
    /\ failures' = failures + 1
    /\ attachments' = [f \in Files |-> Absent]
    /\ refreshedAt' = Never
    /\ call' = [c \in Callers |-> NoCall]
    /\ excused' = {}
    /\ UNCHANGED storage

----------------------------------------------------------------------------

Step(c) ==
    \/ Start(c) \/ ReadDir(c) \/ Select(c) \/ FileGone(c)
    \/ \E f \in Files : Stat(c, f) \/ Read(c, f) \/ Install(c, f)

Next ==
    \/ \E f \in Files : WriteFile(f) \/ DeleteFile(f)
    \/ \E c \in Callers : Step(c) \/ Fail(c)
    \/ Restart

Spec == Init /\ [][Next]_vars

\* The poll timer keeps calling fetchLatest and every promise settles.
FairSpec == Spec /\ \A c \in Callers : WF_vars(Step(c))

----------------------------------------------------------------------------

\* What a refresh selects, and what it still has to do, is in its listing.
WithinListing(r) ==
    /\ r.selected \subseteq r.names
    /\ r.pending \subseteq r.names
    /\ IF r.pc \in {"read", "compile"} THEN r.pending \subseteq r.selected
                                       ELSE r.selected = {}

\* Types, and how the pieces of a refresh in flight relate to each other.
TypeOK ==
    /\ clock \in Nat \ {0}
    /\ writes \in Nat
    /\ failures \in Nat
    /\ folder \in [Files -> File]
    /\ attachments \in [Files -> Nat]
    /\ refreshedAt \in Nat
    /\ call \in [Callers -> Call]
    /\ \A c \in Callers : WithinListing(call[c])
    /\ excused \subseteq Files

\* The copy in memory of a file is what the folder holds, or the next refresh reads it.
WillBeRead(f) ==
    Exists(f) /\ attachments[f] # folder[f].content => ShouldRefresh(f, folder[f].mtime)

\* No lost update: shouldRefreshPolicyAttachment never skips a policy that was rewritten,
\* however writes fall between the awaits of refreshes.  There are two exceptions, each for
\* one file and until it is rewritten: a stamp that is not later than the beginning of a
\* refresh before the write (coarse or slow clocks), and a write during a refresh that is
\* still in flight when another one begins.
NoMissedUpdate == \A f \in Files \ excused : WillBeRead(f)

\* The code has no such exceptions in mind: every rewritten policy is read again.
NeverMissed == \A f \in Files : WillBeRead(f)

\* Once the folder stops changing, the copy in memory becomes, and stays, equal to it:
\* every new policy is loaded (but for the files of the two exceptions), and every deleted
\* one is dropped.
Converges ==
    \A f \in Files : <>[](attachments[f] = folder[f].content \/ (Exists(f) /\ f \in excused))

----------------------------------------------------------------------------
(* The inductive invariant behind NoMissedUpdate. *)

\* The file is gone, or was written after refresh c began.
Unsettled(c, f) == ~Exists(f) \/ folder[f].mtime > call[c].startedAt

ClocksBehind == refreshedAt <= clock /\ \A c \in Callers : call[c].startedAt <= clock

\* A file that was written after one refresh in flight began was written after all of them
\* began, and after the last one that has ended.
SameSide(f) ==
    \A c \in Callers :
        InFlight(c) /\ Exists(f) /\ folder[f].mtime > call[c].startedAt
            => /\ folder[f].mtime > refreshedAt
               /\ \A d \in Callers : InFlight(d) => folder[f].mtime > call[d].startedAt

\* What is not listed was not there when the refresh began, or has been deleted; and
\* lastModified of a listed file is still what was read.
ListingKnown(c, f) ==
    /\ call[c].pc \in {"stat", "read", "compile"} /\ f \notin call[c].names => Unsettled(c, f)
    /\ call[c].pc = "stat" /\ f \in call[c].names \ call[c].pending
          => Unsettled(c, f) \/ call[c].stamp[f] = folder[f].mtime

\* A file that the refresh skipped was up to date already.
SkippedCurrent(c, f) ==
    call[c].pc \in {"read", "compile"} /\ f \in call[c].names \ call[c].selected
        => Unsettled(c, f) \/ attachments[f] = folder[f].content

\* What was read is still what the folder holds.
ContentKnown(c, f) ==
    \/ call[c].pc = "read" /\ f \in call[c].selected \ call[c].pending
    \/ call[c].pc = "compile" /\ f \in call[c].selected
    => Unsettled(c, f) \/ call[c].got[f] = folder[f].content

\* What was installed is still what the folder holds.
InstalledCurrent(c, f) ==
    call[c].pc = "compile" /\ f \in call[c].selected \ call[c].pending
        => Unsettled(c, f) \/ attachments[f] = folder[f].content

Known(c, f) ==
    ListingKnown(c, f) /\ SkippedCurrent(c, f) /\ ContentKnown(c, f) /\ InstalledCurrent(c, f)

RefreshInv ==
    /\ TypeOK
    /\ ClocksBehind
    /\ \A f \in Files \ excused : SameSide(f) /\ WillBeRead(f) /\ \A c \in Callers : Known(c, f)

=============================================================================
