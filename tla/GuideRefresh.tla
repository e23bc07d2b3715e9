---------------------------- MODULE GuideRefresh ----------------------------
(***************************************************************************)
(* internal/guide: a guide refresh downloads the listing, keeps a copy on  *)
(* disk, parses it and replaces the guide in the database; when the        *)
(* download fails it falls back on the copy.  Refreshes are run by the     *)
(* scheduler, by the handler of an explicit refresh and when the tuner is  *)
(* set up, each in its own goroutine, all with the same copy and the same  *)
(* temporary file.                                                         *)
(*                                                                         *)
(* A document is the version of the listing it carries, or Junk: a body    *)
(* that arrives with a success status but does not parse or is rejected by *)
(* the store.  0 stands for an absent document, Empty for a file that was  *)
(* truncated and not written yet, or not to its end.                       *)
(***************************************************************************)
EXTENDS Integers

CONSTANTS
    Clients,     \* bound: refreshes that may run beside the scheduler's
    Scheduler,
    MaxVersion,  \* bound: versions the provider publishes
    MaxRequests, \* bound: refreshes the clients ask for, all together
    MaxCrashes,  \* bound
    Junk,
    Empty,
    Faults       \* what may go wrong, of AllFaults

AllFaults == {"download",  \* discovery or the download fails
              "junk",      \* a success status with an unusable body
              "disk",      \* a system call of saveCache fails
              "store"}     \* the store fails, or the client has left

ASSUME GuideRefreshAssumption ==
    /\ Scheduler \notin Clients
    /\ MaxVersion \in Nat \ {0} /\ MaxRequests \in Nat /\ MaxCrashes \in Nat
    /\ Junk \notin 0 .. MaxVersion /\ Empty \notin 0 .. MaxVersion
    /\ Junk # Empty
    /\ Faults \subseteq AllFaults

VARIABLES
    published,  \* newest version at the provider
    tuner,      \* whether a tuner address is saved
    refresh,    \* where each refresh is
    data,       \* the document each refresh carries
    file,       \* the file each saveCache has open: the temporary, the copy
                \* (renamed under it), or one no name leads to any more
    temporary,  \* content of CachePath.tmp
    copy,       \* content of CachePath
    guide,      \* version in the database
    delay,      \* how long the scheduler waits before its next attempt
    failed,     \* history: the scheduler's last download failed
    met,        \* history: the refreshes under way that met another one
    overlapped, \* history: refreshes have met since one that met none was
                \* imported
    requests,   \* refreshes asked for by clients so far
    crashes     \* times the service was killed so far

filesVars == <<file, temporary, copy>>
outside == <<published, tuner, requests, crashes>>
history == <<met, overlapped>>
vars == <<outside, refresh, data, filesVars, guide, delay, failed, history>>

Refreshers == Clients \cup {Scheduler}
Versions == 1 .. MaxVersion

Goto(r, step) == refresh' = [refresh EXCEPT ![r] = step]

Running == {r \in Refreshers : refresh[r] # "idle"}

Begin(r, step) ==
    /\ refresh[r] = "idle"
    /\ Goto(r, step)
    /\ IF Running = {} THEN UNCHANGED history
                       ELSE met' = Running \cup {r} /\ overlapped' = TRUE

Init ==
    /\ published = 1 /\ tuner \in BOOLEAN
    /\ refresh = [r \in Refreshers |-> "idle"]
    /\ data = [r \in Refreshers |-> 0]
    /\ file = [r \in Refreshers |-> "closed"]
    /\ temporary = 0 /\ copy = 0 /\ guide = 0
    /\ delay = "none" /\ failed = FALSE /\ met = {} /\ overlapped = FALSE
    /\ requests = 0 /\ crashes = 0

-----------------------------------------------------------------------------
(* RefreshService.Refresh *)

NextDelay(r, ok) ==
    IF r # Scheduler THEN delay ELSE IF ok THEN "daily" ELSE "retry"

(* Mutant: the scheduler's loop ends on an error. *)
ReturnStops(r, ok) ==
    /\ Goto(r, IF r = Scheduler /\ ~ok THEN "stopped" ELSE "idle")
    /\ data' = [data EXCEPT ![r] = 0]
    /\ delay' = NextDelay(r, ok)
    /\ met' = met \ {r}

(* The end of a refresh; the scheduler takes its next delay from it. *)
Return(r, ok) ==
    /\ Goto(r, "idle")
    /\ data' = [data EXCEPT ![r] = 0]
    /\ delay' = NextDelay(r, ok)
    /\ met' = met \ {r}

DownloadFailed(r, is) == failed' = IF r = Scheduler THEN is ELSE failed

Download(r) ==
    /\ refresh[r] = "download"
    /\ \/ data' = [data EXCEPT ![r] = published]
       \/ "junk" \in Faults /\ data' = [data EXCEPT ![r] = Junk]
    /\ Goto(r, "save")
    /\ DownloadFailed(r, FALSE)
    /\ UNCHANGED <<outside, filesVars, guide, delay, history>>

(* Fetcher.cached, after a failed download or with no address to ask: the  *)
(* error is dropped when there is a copy to return.                        *)
FallBack(r) ==
    /\ \/ refresh[r] = "download" /\ "download" \in Faults
       \/ refresh[r] = "cached"
    /\ IF copy = 0 THEN Return(r, FALSE)
                   ELSE /\ data' = [data EXCEPT ![r] = copy]
                        /\ Goto(r, "import")
                        /\ UNCHANGED <<delay, met>>
    /\ DownloadFailed(r, TRUE)
    /\ UNCHANGED <<outside, filesVars, guide, overlapped>>

(* Mutant: the copy is written in place. *)
OpenCopy(r) ==
    /\ refresh[r] = "save"
    /\ copy' = Empty
    /\ file' = [file EXCEPT ![r] = "copy"]
    /\ Goto(r, "write")
    /\ UNCHANGED <<outside, data, temporary, guide, delay, failed, history>>

(* saveCache, one system call after the other. *)
OpenTemporary(r) ==
    /\ refresh[r] = "save"
    /\ temporary' = Empty
    /\ file' = [file EXCEPT ![r] = "temporary"]
    /\ Goto(r, "write")
    /\ UNCHANGED <<outside, data, copy, guide, delay, failed, history>>

(* Mutant: the file is left open. *)
WriteLeavesOpen(r) ==
    /\ refresh[r] = "write"
    /\ temporary' = IF file[r] = "temporary" THEN data[r] ELSE temporary
    /\ copy' = IF file[r] = "copy" THEN data[r] ELSE copy
    /\ Goto(r, "rename")
    /\ UNCHANGED <<outside, data, file, guide, delay, failed, history>>

WriteTemporary(r) ==
    /\ refresh[r] = "write"
    /\ temporary' = IF file[r] = "temporary" THEN data[r] ELSE temporary
    /\ copy' = IF file[r] = "copy" THEN data[r] ELSE copy
    /\ file' = [file EXCEPT ![r] = "closed"]
    /\ Goto(r, "rename")
    /\ UNCHANGED <<outside, data, guide, delay, failed, history>>

Renamed(f) ==
    CASE f = "temporary" -> "copy" [] f = "copy" -> "lost" [] OTHER -> f

(* Mutant: an existing copy is kept. *)
RenameUnlessCopied(r) ==
    /\ refresh[r] = "rename"
    /\ copy' = IF copy = 0 THEN temporary ELSE copy
    /\ temporary' = 0
    /\ Goto(r, "import")
    /\ UNCHANGED <<outside, data, file, guide, delay, failed, history>>

(* Another refresh may have renamed the temporary away: the error is       *)
(* returned although the document is at hand.                              *)
RenameTemporary(r) ==
    /\ refresh[r] = "rename"
    /\ \/ /\ temporary # 0
          /\ copy' = temporary /\ temporary' = 0
          /\ file' = [q \in Refreshers |-> Renamed(file[q])]
          /\ Goto(r, "import")
          /\ UNCHANGED <<data, delay, met>>
       \/ /\ temporary = 0
          /\ Return(r, FALSE)
          /\ UNCHANGED filesVars
    /\ UNCHANGED <<outside, guide, failed, overlapped>>

(* MkdirAll, WriteFile or Rename failed: the document is not imported, and *)
(* what was written of the temporary file stays.                           *)
SaveFails(r) ==
    /\ "disk" \in Faults
    /\ refresh[r] \in {"save", "write", "rename"}
    /\ file' = [file EXCEPT ![r] = "closed"]
    /\ Return(r, FALSE)
    /\ UNCHANGED <<outside, temporary, copy, guide, failed, overlapped>>

(* ParseXMLTV and ReplaceGuide's transaction *)
Import(r) ==
    /\ refresh[r] = "import"
    /\ \/ /\ data[r] \in Versions
          /\ guide' = data[r]
          /\ overlapped' = (overlapped /\ r \in met)
          /\ Return(r, TRUE)
       \/ /\ data[r] \notin Versions \/ "store" \in Faults
          /\ Return(r, FALSE)
          /\ UNCHANGED <<guide, overlapped>>
    /\ UNCHANGED <<outside, filesVars, failed>>

RefreshStep(r) ==
    \/ Download(r) \/ FallBack(r)
    \/ OpenTemporary(r) \/ WriteTemporary(r) \/ RenameTemporary(r)
    \/ SaveFails(r) \/ Import(r)

-----------------------------------------------------------------------------
(* Who refreshes *)

(* RunHDHomeRunScheduler's timer fired: without a tuner there is nothing   *)
(* to ask yet, and it looks again after the retry delay.                   *)
SchedulerTurn ==
    /\ IF tuner THEN Begin(Scheduler, "download") /\ UNCHANGED delay
                ELSE delay' = "retry" /\ UNCHANGED <<refresh, history>>
    /\ UNCHANGED <<outside, data, filesVars, guide, failed>>

(* An explicit refresh is not refused before the tuner is set up. *)
ClientRequest(r) ==
    /\ requests < MaxRequests /\ requests' = requests + 1
    /\ Begin(r, IF tuner THEN "download" ELSE "cached")
    /\ UNCHANGED <<published, tuner, crashes, data, filesVars, guide, delay,
                   failed>>

(* configureTuner saves the address and starts a refresh of its own. *)
SetUpTuner(r) ==
    /\ ~tuner /\ tuner' = TRUE
    /\ Begin(r, "download")
    /\ UNCHANGED <<published, requests, crashes, data, filesVars, guide,
                   delay, failed>>

Publish ==
    /\ published < MaxVersion
    /\ published' = published + 1
    /\ UNCHANGED <<tuner, requests, crashes, refresh, data, filesVars, guide,
                   delay, failed, history>>

(* The service is killed and started again. *)
Crash ==
    /\ crashes < MaxCrashes /\ crashes' = crashes + 1
    /\ refresh' = [r \in Refreshers |-> "idle"]
    /\ data' = [r \in Refreshers |-> 0]
    /\ file' = [r \in Refreshers |-> "closed"]
    /\ delay' = "none" /\ failed' = FALSE /\ met' = {}
    /\ UNCHANGED <<published, tuner, requests, temporary, copy, guide,
                   overlapped>>

Next ==
    \/ SchedulerTurn \/ Publish \/ Crash
    \/ \E r \in Clients : ClientRequest(r) \/ SetUpTuner(r)
    \/ \E r \in Refreshers : RefreshStep(r)

Spec == Init /\ [][Next]_vars

(* The scheduler takes a step with the newest listing at hand. *)
OfNewest(A) == data[Scheduler] = published /\ A

(* Goroutines run, timers fire, the user sets the tuner up; the download   *)
(* of the newest listing, what is done to save it and its import, if they  *)
(* keep being tried, keep succeeding now and then.                         *)
Fairness ==
    /\ WF_vars(\E r \in Clients : SetUpTuner(r))
    /\ WF_vars(Publish) /\ WF_vars(SchedulerTurn)
    /\ \A r \in Refreshers : WF_vars(RefreshStep(r))
    /\ SF_vars(Download(Scheduler) /\ data'[Scheduler] = published)
    /\ SF_vars(OfNewest(OpenTemporary(Scheduler)))
    /\ SF_vars(OfNewest(WriteTemporary(Scheduler)))
    /\ SF_vars(OfNewest(RenameTemporary(Scheduler)))
    /\ SF_vars(OfNewest(Import(Scheduler) /\ guide' = published))

FairSpec == Spec /\ Fairness

-----------------------------------------------------------------------------
(* Properties *)

Documents == 0 .. MaxVersion \cup {Junk, Empty}

TypeOK ==
    /\ published \in 1 .. MaxVersion /\ tuner \in BOOLEAN
    /\ refresh \in [Refreshers -> {"idle", "download", "cached", "save",
                                   "write", "rename", "import"}]
    /\ data \in [Refreshers -> Documents]
    /\ file \in [Refreshers -> {"closed", "temporary", "copy", "lost"}]
    /\ temporary \in Documents /\ copy \in Documents
    /\ guide \in 0 .. MaxVersion
    /\ delay \in {"none", "retry", "daily"} /\ failed \in BOOLEAN
    /\ met \subseteq Running /\ overlapped \in BOOLEAN
    /\ requests \in 0 .. MaxRequests /\ crashes \in 0 .. MaxCrashes
    /\ \A r \in Refreshers : file[r] # "closed" <=> refresh[r] = "write"

(* The guide goes back to an older listing only after refreshes have met,  *)
(* and only until one that met none is imported, whatever failed           *)
(* downloads, unusable bodies and crashes come between: the copy a refresh *)
(* falls back on is at least as new as the guide.                          *)
GuideNeverRegresses == [][overlapped \/ guide' >= guide]_vars

(* Neither a crash nor a write that fails half-way tears the copy, and     *)
(* refreshes that meet tear it only until one that met none is imported.   *)
CopyIsWhole == copy = Empty => overlapped

(* The guide reaches the newest listing and stays there, through failures  *)
(* of the download, the disk and the store, unusable bodies, fallbacks and *)
(* the races of the refreshes clients ask for, once those end: the         *)
(* scheduler never stops trying.                                           *)
GuideCatchesUp == <>[](guide = MaxVersion)

-----------------------------------------------------------------------------
(* What the project's texts say and the code does not do *)

(* docs/ARCHITECTURE.md:18: "Successful XML is atomically retained as the  *)
(* last-good guide."                                                       *)
CopyIsGood == copy \in {0} \cup Versions

(* docs/ARCHITECTURE.md:53: "Failures retain the cached guide and retry    *)
(* after 30 minutes."                                                      *)
FailureRetriesSoon ==
    refresh[Scheduler] = "idle" /\ failed => delay # "daily"

=============================================================================
