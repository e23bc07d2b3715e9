------------------------- MODULE GuideRefreshProofs -------------------------
(***************************************************************************)
(* Proofs about GuideRefresh, for any number of clients, versions, requests*)
(* and crashes: the type invariant, and that between the import of a       *)
(* refresh that met no other and the next meeting the guide never goes     *)
(* back and the copy is whole.                                             *)
(***************************************************************************)
EXTENDS GuideRefresh, TLAPS

-----------------------------------------------------------------------------
(* The inductive invariant *)

Steps == {"idle", "download", "cached", "save", "write", "rename", "import"}

(* Those that have met none run alone; while such a refresh writes its     *)
(* document down the temporary file is its own, and afterwards the copy is *)
(* what it is about to import.                                             *)
Alone(r) ==
    /\ Running = {r}
    /\ refresh[r] = "write" => file[r] = "temporary"
    /\ refresh[r] = "rename" => temporary = data[r]
    /\ refresh[r] = "import" => copy = data[r]

(* What is newer than what. *)
NothingNewer ==
    /\ guide <= published
    /\ \A r \in Refreshers : data[r] \in Versions => data[r] <= published
    /\ temporary \in Versions => temporary <= published
    /\ copy \in Versions => copy <= published

(* A version on its way, and the one a fallback reads, are not older than  *)
(* the guide.                                                              *)
NothingOlder ==
    /\ \A r \in Refreshers :
        /\ refresh[r] \in {"save", "write", "rename", "import"}
        /\ data[r] \in Versions
        => data[r] >= guide
    /\ copy \in Versions => copy >= guide

TakingTurns ==
    /\ \A r \in Refreshers :
        refresh[r] \in {"save", "write", "rename"} => data[r] # Empty
    /\ \A r \in Running \ met : Alone(r)
    /\ ~overlapped => met = {} /\ NothingOlder /\ copy # Empty

RefreshInv == TypeOK /\ NothingNewer /\ TakingTurns

LEMMA RefreshInitial == Init => RefreshInv
<1> USE GuideRefreshAssumption
    DEF Init, Documents, Versions
<1>1. Init => TypeOK
  <2> SUFFICES ASSUME Init PROVE TypeOK
    OBVIOUS
  <2>1. published \in 1 .. MaxVersion /\ guide \in 0 .. MaxVersion
    OBVIOUS
  <2>2. requests \in 0 .. MaxRequests /\ crashes \in 0 .. MaxCrashes
    OBVIOUS
  <2>3. /\ temporary \in Documents /\ copy \in Documents
        /\ data \in [Refreshers -> Documents]
    OBVIOUS
  <2> QED
    BY <2>1, <2>2, <2>3 DEF TypeOK
<1>2. Init => NothingNewer
  BY DEF NothingNewer
<1>3. Init => TakingTurns
  BY DEF TakingTurns, Running, Alone, NothingOlder
<1> QED
  BY <1>1, <1>2, <1>3 DEF RefreshInv

-----------------------------------------------------------------------------
(* Induction *)

(* A refresh that begins meets all that run. *)
LEMMA BeginMeets ==
    ASSUME TypeOK, NEW r \in Refreshers,
           NEW step \in {"download", "cached"}, Begin(r, step)
    PROVE  /\ Running' = Running \cup {r} /\ refresh'[r] = step
           /\ \/ Running = {} /\ met' = {} /\ UNCHANGED overlapped
              \/ met' = Running' /\ overlapped' = TRUE
  BY DEF TypeOK, Begin, Goto, Running, history

(* One step of a refresh, and its end. *)
LEMMA OneMoves ==
    ASSUME TypeOK, NEW r \in Refreshers, refresh[r] # "idle",
           NEW step \in Steps, Goto(r, step)
    PROVE  Running' = IF step = "idle" THEN Running \ {r} ELSE Running
  BY DEF TypeOK, Goto, Running

LEMMA TypesKept ==
    TypeOK /\ [Next]_vars => TypeOK'
<1> SUFFICES ASSUME TypeOK, [Next]_vars
             PROVE  TypeOK'
  OBVIOUS
<1> USE GuideRefreshAssumption
    DEF outside, filesVars, Goto, Refreshers, TypeOK, Documents, Versions,
        Running, history
<1>0. ASSUME NEW r \in Refreshers, NEW step \in {"download", "cached"},
             Begin(r, step)
      PROVE  /\ refresh' \in [Refreshers -> Steps]
             /\ \A q \in Refreshers :
                    refresh'[q] = "write" <=> refresh[q] = "write"
             /\ met' \subseteq Running' /\ overlapped' \in BOOLEAN
  <2>1. met' \subseteq Running' /\ overlapped' \in BOOLEAN
    <3>1. overlapped \in BOOLEAN
      OBVIOUS
    <3> HIDE DEF Running, TypeOK
    <3> QED
      BY <1>0, <3>1, BeginMeets
  <2> QED
    BY <1>0, <2>1 DEF Begin, Steps
<1>1. CASE SchedulerTurn
  <2>1. CASE Begin(Scheduler, "download")
    BY <1>0, <1>1, <2>1 DEF SchedulerTurn, Steps
  <2>2. CASE ~Begin(Scheduler, "download")
    BY <1>1, <2>2 DEF SchedulerTurn
  <2> QED
    BY <2>1, <2>2
<1>2. CASE Publish
  BY <1>2 DEF Publish
<1>3. CASE Crash
  <2>1. crashes' \in 0 .. MaxCrashes
    BY <1>3 DEF Crash
  <2>2. data' \in [Refreshers -> Documents]
    <3>1. 0 \in Documents
      OBVIOUS
    <3> HIDE DEF Documents
    <3> QED
      BY <1>3, <3>1 DEF Crash
  <2>3. /\ refresh' \in [Refreshers -> Steps]
        /\ file' \in [Refreshers -> {"closed", "temporary", "copy", "lost"}]
        /\ \A r \in Refreshers : file'[r] # "closed" <=> refresh'[r] = "write"
    BY <1>3 DEF Crash, Steps
  <2> QED
    BY <1>3, <2>1, <2>2, <2>3 DEF Crash, Steps
<1>4. ASSUME NEW r \in Clients, ClientRequest(r)
      PROVE  TypeOK'
  BY <1>0, <1>4 DEF ClientRequest, Steps
<1>5. ASSUME NEW r \in Clients, SetUpTuner(r)
      PROVE  TypeOK'
  BY <1>0, <1>5 DEF SetUpTuner, Steps
<1>6. ASSUME NEW r \in Refreshers, Download(r)
      PROVE  TypeOK'
  <2>1. data' \in [Refreshers -> Documents]
    BY <1>6 DEF Download
  <2>2. failed' \in BOOLEAN
    BY <1>6 DEF Download, DownloadFailed
  <2> QED
    BY <1>6, <2>1, <2>2 DEF Download
<1>7. ASSUME NEW r \in Refreshers, FallBack(r)
      PROVE  TypeOK'
  <2>1. data' \in [Refreshers -> Documents]
    <3>1. data' = [data EXCEPT ![r] = 0] \/ data' = [data EXCEPT ![r] = copy]
      BY <1>7 DEF FallBack, Return
    <3> QED
      BY <3>1
  <2>4. /\ refresh' \in [Refreshers -> Steps]
        /\ \A q \in Refreshers : file'[q] # "closed" <=> refresh'[q] = "write"
    <3>1. refresh' = [refresh EXCEPT ![r] = "idle"]
            \/ refresh' = [refresh EXCEPT ![r] = "import"]
      BY <1>7 DEF FallBack, Return
    <3>2. refresh[r] # "write" /\ file' = file
      BY <1>7 DEF FallBack
    <3> QED
      BY <3>1, <3>2 DEF Steps
  <2>2. failed' \in BOOLEAN
    BY <1>7 DEF FallBack, DownloadFailed
  <2>3. delay' \in {"none", "retry", "daily"}
    BY <1>7 DEF FallBack, Return, NextDelay
  <2>5. met' \subseteq Running'
    <3>1. CASE Return(r, FALSE)
      BY <1>7, <3>1 DEF FallBack, Return
    <3>2. CASE Goto(r, "import") /\ UNCHANGED met
      BY <3>2
    <3> QED
      BY <1>7, <3>1, <3>2 DEF FallBack
  <2> QED
    BY <1>7, <2>1, <2>2, <2>3, <2>4, <2>5 DEF FallBack, Steps
<1>8. ASSUME NEW r \in Refreshers, OpenTemporary(r)
      PROVE  TypeOK'
  BY <1>8 DEF OpenTemporary
<1>9. ASSUME NEW r \in Refreshers, WriteTemporary(r)
      PROVE  TypeOK'
  BY <1>9 DEF WriteTemporary
<1>10. ASSUME NEW r \in Refreshers, RenameTemporary(r)
      PROVE  TypeOK'
  BY <1>10 DEF RenameTemporary, Return, NextDelay, Renamed
<1>11. ASSUME NEW r \in Refreshers, Import(r)
      PROVE  TypeOK'
  <2>1. Return(r, TRUE) \/ Return(r, FALSE)
    BY <1>11 DEF Import
  <2>2. met' \subseteq Running'
    BY <2>1 DEF Return
  <2>3. overlapped' \in BOOLEAN
    <3>1. CASE overlapped' = (overlapped /\ r \in met)
      BY <3>1
    <3>2. CASE UNCHANGED overlapped
      BY <3>2
    <3> QED
      BY <1>11, <3>1, <3>2 DEF Import
  <2>4. guide' \in 0 .. MaxVersion
    <3>1. CASE data[r] \in 1 .. MaxVersion /\ guide' = data[r]
      BY <3>1
    <3>2. CASE UNCHANGED guide
      BY <3>2
    <3> QED
      BY <1>11, <3>1, <3>2 DEF Import
  <2>5. data' \in [Refreshers -> Documents]
    <3>1. 0 \in Documents
      OBVIOUS
    <3> HIDE DEF Documents
    <3> QED
      BY <2>1, <3>1 DEF Return
  <2>6. delay' \in {"none", "retry", "daily"}
    BY <2>1 DEF Return, NextDelay
  <2>7. /\ refresh' \in [Refreshers -> Steps]
        /\ \A q \in Refreshers : file'[q] # "closed" <=> refresh'[q] = "write"
    BY <1>11, <2>1 DEF Import, Return, Steps
  <2> QED
    BY <1>11, <2>2, <2>3, <2>4, <2>5, <2>6, <2>7 DEF Import, Steps
<1>12. ASSUME NEW r \in Refreshers, SaveFails(r)
      PROVE  TypeOK'
  <2>1. met' \subseteq Running'
    BY <1>12 DEF SaveFails, Return
  <2>2. data' \in [Refreshers -> Documents]
    <3>1. 0 \in Documents
      OBVIOUS
    <3> HIDE DEF Documents
    <3> QED
      BY <1>12, <3>1 DEF SaveFails, Return
  <2>3. delay' \in {"none", "retry", "daily"}
    BY <1>12 DEF SaveFails, Return, NextDelay
  <2>4. /\ refresh' \in [Refreshers -> Steps]
        /\ file' \in [Refreshers -> {"closed", "temporary", "copy", "lost"}]
        /\ \A q \in Refreshers : file'[q] # "closed" <=> refresh'[q] = "write"
    BY <1>12 DEF SaveFails, Return, Steps
  <2> QED
    BY <1>12, <2>1, <2>2, <2>3, <2>4 DEF SaveFails, Steps
<1>13. CASE UNCHANGED vars
  BY <1>13 DEF vars
<1> QED
  BY <1>1, <1>2, <1>3, <1>4, <1>5, <1>6, <1>7, <1>8, <1>9, <1>10, <1>11,
     <1>12, <1>13 DEF Next, RefreshStep

LEMMA NothingNewerKept ==
    TypeOK /\ NothingNewer /\ [Next]_vars => NothingNewer'
<1> SUFFICES ASSUME TypeOK /\ NothingNewer, [Next]_vars
             PROVE  NothingNewer'
  OBVIOUS
<1> USE GuideRefreshAssumption
    DEF outside, filesVars, Goto, Refreshers, TypeOK, NothingNewer, Documents,
        Versions, history
<1>1. CASE SchedulerTurn
  BY <1>1 DEF SchedulerTurn, Begin
<1>2. CASE Publish
  BY <1>2 DEF Publish
<1>3. CASE Crash
  BY <1>3 DEF Crash
<1>4. ASSUME NEW r \in Clients, ClientRequest(r)
      PROVE  NothingNewer'
  BY <1>4 DEF ClientRequest, Begin
<1>5. ASSUME NEW r \in Clients, SetUpTuner(r)
      PROVE  NothingNewer'
  BY <1>5 DEF SetUpTuner, Begin
<1>6. ASSUME NEW r \in Refreshers, Download(r)
      PROVE  NothingNewer'
  BY <1>6 DEF Download, DownloadFailed
<1>7. ASSUME NEW r \in Refreshers, FallBack(r)
      PROVE  NothingNewer'
  BY <1>7 DEF FallBack, DownloadFailed, Return, NextDelay
<1>8. ASSUME NEW r \in Refreshers, OpenTemporary(r)
      PROVE  NothingNewer'
  BY <1>8 DEF OpenTemporary
<1>9. ASSUME NEW r \in Refreshers, WriteTemporary(r)
      PROVE  NothingNewer'
  BY <1>9 DEF WriteTemporary
<1>10. ASSUME NEW r \in Refreshers, RenameTemporary(r)
      PROVE  NothingNewer'
  BY <1>10 DEF RenameTemporary, Return, NextDelay, Renamed
<1>11. ASSUME NEW r \in Refreshers, Import(r)
      PROVE  NothingNewer'
  BY <1>11 DEF Import, Return, NextDelay
<1>12. ASSUME NEW r \in Refreshers, SaveFails(r)
      PROVE  NothingNewer'
  BY <1>12 DEF SaveFails, Return
<1>13. CASE UNCHANGED vars
  BY <1>13 DEF vars
<1> QED
  BY <1>1, <1>2, <1>3, <1>4, <1>5, <1>6, <1>7, <1>8, <1>9, <1>10, <1>11,
     <1>12, <1>13 DEF Next, RefreshStep

(* A refresh that moves and has met none is the only one there is.         *)
LEMMA MoverAlone ==
    ASSUME \A q \in Running \ met : Alone(q),
           NEW r \in Refreshers, refresh[r] # "idle",
           Running' = Running, met' = met
    PROVE  \A q \in Running' \ met' : q = r /\ Running' = {r} /\ Alone(r)
<1> SUFFICES ASSUME NEW q \in Running \ met
             PROVE  q = r /\ Running = {r} /\ Alone(r)
  OBVIOUS
<1>1. r \in Running
  BY DEF Running
<1>2. Running = {q}
  BY DEF Alone
<1> QED
  BY <1>1, <1>2

(* No body that is downloaded is an empty file, and none turns into one on *)
(* its way to the copy.                                                    *)
LEMMA NoneEmptied ==
    ASSUME TypeOK, NEW r \in Refreshers, NEW step \in Steps, Goto(r, step),
           \A q \in Refreshers :
               refresh[q] \in {"save", "write", "rename"} => data[q] # Empty,
           \/ refresh[r] \in {"save", "write", "rename"} /\ UNCHANGED data
           \/ /\ step \notin {"save", "write", "rename"}
              /\ \E d \in Documents : data' = [data EXCEPT ![r] = d]
           \/ \E d \in Documents \ {Empty} : data' = [data EXCEPT ![r] = d]
    PROVE  \A q \in Refreshers :
               refresh'[q] \in {"save", "write", "rename"} => data'[q] # Empty
  BY DEF TypeOK, Goto

LEMMA TurnsKept ==
    RefreshInv /\ [Next]_vars => TakingTurns'
<1> SUFFICES ASSUME RefreshInv, [Next]_vars
             PROVE  TakingTurns'
  OBVIOUS
<1> USE GuideRefreshAssumption
    DEF outside, filesVars, Goto, Refreshers, RefreshInv, TypeOK, NothingNewer,
        TakingTurns, Alone, NothingOlder, Documents, Versions, history
<1>0. ASSUME NEW r \in Refreshers, NEW step \in {"download", "cached"},
             Begin(r, step), UNCHANGED <<data, filesVars, guide>>
      PROVE  TakingTurns'
  <2>1. /\ refresh' = [refresh EXCEPT ![r] = step]
        /\ Running' = Running \cup {r}
        /\ \/ Running = {} /\ met' = {} /\ UNCHANGED overlapped
           \/ met' = Running' /\ overlapped'
    BY <1>0, BeginMeets DEF Begin
  <2> QED
    BY <1>0, <2>1
<1>1. CASE SchedulerTurn
  <2>1. CASE Begin(Scheduler, "download")
    BY <1>0, <1>1, <2>1 DEF SchedulerTurn
  <2>2. CASE ~Begin(Scheduler, "download")
    BY <1>1, <2>2 DEF SchedulerTurn, Running
  <2> QED
    BY <2>1, <2>2
<1>2. CASE Publish
  BY <1>2 DEF Publish, Running
<1>3. CASE Crash
  BY <1>3 DEF Crash, Running
<1>4. ASSUME NEW r \in Clients, ClientRequest(r)
      PROVE  TakingTurns'
  BY <1>0, <1>4 DEF ClientRequest
<1>5. ASSUME NEW r \in Clients, SetUpTuner(r)
      PROVE  TakingTurns'
  BY <1>0, <1>5 DEF SetUpTuner
<1>6. ASSUME NEW r \in Refreshers, Download(r)
      PROVE  TakingTurns'
  <2>1. Running' = Running
    BY <1>6, OneMoves DEF Download, Steps
  <2>5. \A q \in Refreshers :
            refresh'[q] \in {"save", "write", "rename"} => data'[q] # Empty
    <3>1. published \in Documents \ {Empty} /\ Junk \in Documents \ {Empty}
      OBVIOUS
    <3> HIDE DEF TypeOK, Goto, Documents
    <3> QED
      BY <1>6, <3>1, NoneEmptied DEF Download, Steps
  <2>6. \A q \in Running' \ met' : Alone(q)'
    <3>1. \A q \in Running' \ met' : q = r /\ Running' = {r} /\ Alone(r)
      BY <1>6, <2>1, MoverAlone DEF Download
    <3> SUFFICES ASSUME Running' = {r}, Alone(r) PROVE Alone(r)'
      BY <3>1
    <3> QED
      BY <1>6, <2>1 DEF Download, Renamed
  <2>7. ~overlapped' => met' = {} /\ NothingOlder' /\ copy' # Empty
    BY <1>6, <2>1 DEF Download, DownloadFailed
  <2> QED
    BY <2>5, <2>6, <2>7
<1>7. ASSUME NEW r \in Refreshers, FallBack(r)
      PROVE  TakingTurns'
  <2>1. CASE copy = 0 /\ Return(r, FALSE)
    <3>1. Running' = Running \ {r}
      BY <1>7, <2>1, OneMoves DEF FallBack, Return, Steps
    <3> QED
      BY <1>7, <2>1, <3>1 DEF FallBack, Return
  <2>2. CASE /\ copy # 0 /\ data' = [data EXCEPT ![r] = copy]
             /\ Goto(r, "import") /\ UNCHANGED met
    <3>1. Running' = Running
      BY <1>7, <2>2, OneMoves DEF FallBack, Steps
    <3> QED
      BY <1>7, <2>2, <3>1 DEF FallBack
  <2> QED
    BY <1>7, <2>1, <2>2 DEF FallBack
<1>8. ASSUME NEW r \in Refreshers, OpenTemporary(r)
      PROVE  TakingTurns'
  <2>1. Running' = Running
    BY <1>8, OneMoves DEF OpenTemporary, Steps
  <2>5. \A q \in Refreshers :
            refresh'[q] \in {"save", "write", "rename"} => data'[q] # Empty
    <3> HIDE DEF TypeOK, Goto, Documents
    <3> QED
      BY <1>8, NoneEmptied DEF OpenTemporary, Steps
  <2>6. \A q \in Running' \ met' : Alone(q)'
    <3>1. \A q \in Running' \ met' : q = r /\ Running' = {r} /\ Alone(r)
      BY <1>8, <2>1, MoverAlone DEF OpenTemporary
    <3> SUFFICES ASSUME Running' = {r}, Alone(r) PROVE Alone(r)'
      BY <3>1
    <3> QED
      BY <1>8, <2>1 DEF OpenTemporary, Renamed
  <2>7. ~overlapped' => met' = {} /\ NothingOlder' /\ copy' # Empty
    BY <1>8, <2>1 DEF OpenTemporary
  <2> QED
    BY <2>5, <2>6, <2>7
<1>9. ASSUME NEW r \in Refreshers, WriteTemporary(r)
      PROVE  TakingTurns'
  <2>1. Running' = Running
    BY <1>9, OneMoves DEF WriteTemporary, Steps
  <2>2. ~overlapped => file[r] = "temporary"
    BY <1>9 DEF WriteTemporary, Running
  <2>5. \A q \in Refreshers :
            refresh'[q] \in {"save", "write", "rename"} => data'[q] # Empty
    <3> HIDE DEF TypeOK, Goto, Documents
    <3> QED
      BY <1>9, NoneEmptied DEF WriteTemporary, Steps
  <2>6. \A q \in Running' \ met' : Alone(q)'
    <3>1. \A q \in Running' \ met' : q = r /\ Running' = {r} /\ Alone(r)
      BY <1>9, <2>1, MoverAlone DEF WriteTemporary
    <3> SUFFICES ASSUME Running' = {r}, Alone(r) PROVE Alone(r)'
      BY <3>1
    <3> QED
      BY <1>9, <2>1 DEF WriteTemporary, Renamed
  <2>7. ~overlapped' => met' = {} /\ NothingOlder' /\ copy' # Empty
    BY <1>9, <2>1, <2>2 DEF WriteTemporary
  <2> QED
    BY <2>5, <2>6, <2>7
<1>10. ASSUME NEW r \in Refreshers, RenameTemporary(r)
      PROVE  TakingTurns'
  <2>1. CASE /\ temporary # 0 /\ copy' = temporary /\ temporary' = 0
             /\ file' = [q \in Refreshers |-> Renamed(file[q])]
             /\ Goto(r, "import") /\ UNCHANGED <<data, delay, met>>
    <3>1. Running' = Running
      BY <1>10, <2>1, OneMoves DEF RenameTemporary, Steps
    <3>2. ~overlapped => temporary = data[r] /\ data[r] # Empty
      BY <1>10 DEF RenameTemporary, Running
    <3>5. \A q \in Refreshers :
            refresh'[q] \in {"save", "write", "rename"} => data'[q] # Empty
      <4> HIDE DEF TypeOK, Goto, Documents
      <4> QED
        BY <1>10, <2>1, NoneEmptied DEF RenameTemporary, Steps
    <3>6. \A q \in Running' \ met' : Alone(q)'
      <4>1. \A q \in Running' \ met' : q = r /\ Running' = {r} /\ Alone(r)
        BY <1>10, <2>1, <3>1, MoverAlone DEF RenameTemporary
      <4> SUFFICES ASSUME Running' = {r}, Alone(r) PROVE Alone(r)'
        BY <4>1
      <4> QED
        BY <1>10, <2>1 DEF RenameTemporary, Renamed
    <3>7. ~overlapped' => met' = {} /\ NothingOlder' /\ copy' # Empty
      BY <1>10, <2>1, <3>1, <3>2 DEF RenameTemporary
    <3> QED
      BY <3>5, <3>6, <3>7
  <2>2. CASE temporary = 0 /\ Return(r, FALSE) /\ UNCHANGED filesVars
    <3>1. Running' = Running \ {r}
      BY <1>10, <2>2, OneMoves DEF RenameTemporary, Return, Steps
    <3> QED
      BY <1>10, <2>2, <3>1 DEF RenameTemporary, Return
  <2> QED
    BY <1>10, <2>1, <2>2 DEF RenameTemporary
<1>11. ASSUME NEW r \in Refreshers, Import(r)
      PROVE  TakingTurns'
  <2>1. Return(r, TRUE) \/ Return(r, FALSE)
    BY <1>11 DEF Import
  <2>2. Running' = Running \ {r}
    BY <1>11, <2>1, OneMoves DEF Import, Return, Steps
  <2>3. r \notin met => Running = {r} /\ copy = data[r]
    BY <1>11 DEF Import, Running
  <2>5. \A q \in Refreshers :
            refresh'[q] \in {"save", "write", "rename"} => data'[q] # Empty
    <3>1. 0 \in Documents
      OBVIOUS
    <3> HIDE DEF TypeOK, Goto, Documents
    <3> QED
      BY <1>11, <2>1, <3>1, NoneEmptied DEF Return, Steps
  <2>6. \A q \in Running' \ met' : Alone(q)'
    BY <1>11, <2>1, <2>2, <2>3 DEF Import, Return
  <2>7. ~overlapped' => met' = {} /\ NothingOlder' /\ copy' # Empty
    <3>1. CASE UNCHANGED <<guide, overlapped>>
      <4>1. /\ guide' = guide /\ copy' = copy /\ overlapped' = overlapped
            /\ refresh' = [refresh EXCEPT ![r] = "idle"]
            /\ data' = [data EXCEPT ![r] = 0] /\ met' = met \ {r}
        BY <1>11, <3>1 DEF Import, Return
      <4> QED
        BY <4>1
    <3>2. CASE overlapped' = (overlapped /\ r \in met) /\ r \in met
      <4>1. overlapped' = overlapped
        BY <3>2
      <4> QED
        BY <3>2, <4>1
    <3>3. CASE data[r] \in Versions /\ guide' = data[r] /\ r \notin met
      <4>1. /\ guide' = data[r] /\ copy' = copy /\ copy = data[r]
            /\ refresh' = [refresh EXCEPT ![r] = "idle"] /\ met' = met \ {r}
        BY <1>11, <2>3, <3>3 DEF Import, Return
      <4>2. \A q \in Refreshers : refresh'[q] = "idle"
        BY <2>3, <3>3, <4>1 DEF Running
      <4>3. met' = {}
        BY <2>3, <3>3, <4>1
      <4> QED
        BY <3>3, <4>1, <4>2, <4>3
    <3> QED
      BY <1>11, <3>1, <3>2, <3>3 DEF Import
  <2> QED
    BY <2>5, <2>6, <2>7
<1>12. ASSUME NEW r \in Refreshers, SaveFails(r)
      PROVE  TakingTurns'
  <2>1. Running' = Running \ {r}
    BY <1>12, OneMoves DEF SaveFails, Return, Steps
  <2> QED
    BY <1>12, <2>1 DEF SaveFails, Return
<1>13. CASE UNCHANGED vars
  BY <1>13 DEF vars, Running
<1> QED
  BY <1>1, <1>2, <1>3, <1>4, <1>5, <1>6, <1>7, <1>8, <1>9, <1>10, <1>11,
     <1>12, <1>13 DEF Next, RefreshStep

LEMMA RefreshStepKeeps == RefreshInv /\ [Next]_vars => RefreshInv'
  BY TypesKept, NothingNewerKept, TurnsKept DEF RefreshInv

THEOREM RefreshInvariant == Spec => []RefreshInv
  BY RefreshInitial, RefreshStepKeeps, PTL DEF Spec

-----------------------------------------------------------------------------
(* What follows *)

(* Every variable keeps its type, and a file is open exactly while it is   *)
(* about to be written.                                                    *)
THEOREM RefreshTypeCorrect == Spec => []TypeOK
<1>1. RefreshInv => TypeOK
  BY DEF RefreshInv
<1> QED
  BY <1>1, RefreshInvariant, PTL

(* A crash or a failure in the middle of saveCache does not tear the copy, *)
(* whatever it leaves of the temporary file, and once a refresh that met   *)
(* no other has been imported it is whole again.                           *)
THEOREM CopyStaysWhole == Spec => []CopyIsWhole
<1>1. RefreshInv => CopyIsWhole
  BY DEF RefreshInv, TakingTurns, CopyIsWhole
<1> QED
  BY <1>1, RefreshInvariant, PTL

(* From the import of a refresh that met no other until refreshes meet, no *)
(* failed download, unusable body, fallback or crash takes the guide back  *)
(* to an older listing.                                                    *)
THEOREM GuideOnlyAdvances == Spec => GuideNeverRegresses
<1>1. RefreshInv /\ [Next]_vars => [overlapped \/ guide' >= guide]_vars
  <2> SUFFICES ASSUME RefreshInv, Next, ~overlapped PROVE guide' >= guide
    OBVIOUS
  <2> USE GuideRefreshAssumption DEF RefreshInv, TypeOK
  <2>1. ASSUME NEW r \in Refreshers, Import(r) PROVE guide' >= guide
    <3>1. data[r] \in Versions => data[r] >= guide
      BY <2>1 DEF Import, TakingTurns, NothingOlder, Running
    <3>2. CASE data[r] \in Versions /\ guide' = data[r]
      BY <3>1, <3>2
    <3>3. CASE UNCHANGED guide
      BY <3>3
    <3> QED
      BY <2>1, <3>2, <3>3 DEF Import
  <2>2. CASE UNCHANGED guide
    BY <2>2
  <2> QED
    BY <2>1, <2>2
    DEF Next, SchedulerTurn, Publish, Crash, ClientRequest, SetUpTuner,
        RefreshStep, Download, FallBack, OpenTemporary, WriteTemporary,
        RenameTemporary, SaveFails
<1> QED
  BY <1>1, RefreshInvariant, PTL DEF Spec, GuideNeverRegresses

=============================================================================
