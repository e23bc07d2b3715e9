-------------------------- MODULE GuideImportProofs --------------------------
(***************************************************************************)
(* Proofs about GuideImport, for any documents, stations, recordings and   *)
(* number of overlapping imports: only an import that overlaps the choice  *)
(* of a logo replaces it, the catalog is asked again within the week only  *)
(* by an import that could not know the answer, and scheduled recordings   *)
(* follow the channel numbers.                                             *)
(***************************************************************************)
EXTENDS GuideImport, TLAPS

-----------------------------------------------------------------------------
(* The inductive invariant *)

Updates == {"keep", "ask", "catalog", "none", "xmltv"}

(* An import holds a document until it is over, and knows by the time of   *)
(* its transaction what to save.                                           *)
ImportsPrepared ==
    \A i \in Importers :
        /\ pc[i] = "idle" => update[i] = NoUpdate
        /\ pc[i] # "idle" => doc[i] \in Documents
        /\ pc[i] = "commit" => Asks(i) = {}

(* An answer of the catalog that no row holds. *)
Unsaved(st) == st \in lost \/ \E k \in Importers : st \in Answered(k)

(* What an import is going to do about a logo was decided from the row, or *)
(* from one that another import has replaced since.                        *)
DecidedFromRow ==
    \A i \in Importers, st \in Stations :
        /\ update[i][st] # "keep" /\ HasLogo(st) => st \in stale[i]
        /\ update[i][st] = "ask" =>
               asked[st] = 0 \/ st \in stale[i] \/ Unsaved(st)

(* For a week after the catalog was asked the row says so, unless the      *)
(* answer is not saved yet or was lost.                                    *)
AnswerRemembered ==
    \A st \in Stations :
        asked[st] > 0 => \/ HasLogo(st)
                         \/ logos[st] = "none" /\ wait[st] >= asked[st]
                         \/ Unsaved(st)

(* The number is right while the recording runs, too: it may be requeued.  *)
NumberCurrent(j) ==
    job[j] \in {"scheduled", "recording"} /\ channel[j].id \in DOMAIN channels
        /\ j \notin missed
    => channel[j].number = channels[channel[j].id].number

ChannelsCopied ==
    /\ channel = [j \in Jobs |->
                    [id |-> channel[j].id, number |-> channel[j].number]]
    /\ \A j \in Jobs : NumberCurrent(j)

ImportInv ==
    /\ ImportTypeOK /\ ImportsPrepared /\ DecidedFromRow /\ AnswerRemembered
    /\ ChannelsCopied

LEMMA ImportInitial == Init => ImportInv
<1> USE ImportAssumption DEF Init, NoUpdate, NoDocument
<1>1. Init => ImportTypeOK
  BY DEF ImportTypeOK
<1>2. Init => ImportsPrepared /\ DecidedFromRow /\ AnswerRemembered
  BY DEF ImportsPrepared, DecidedFromRow, AnswerRemembered
<1>3. Init => ChannelsCopied
  BY DEF ChannelsCopied, NumberCurrent, NoChannel
<1> QED
  BY <1>1, <1>2, <1>3 DEF ImportInv

-----------------------------------------------------------------------------
(* Induction *)

LEMMA TypesKept ==
    ImportTypeOK /\ ImportsPrepared /\ [Next]_vars
        => ImportTypeOK'
<1> SUFFICES ASSUME ImportTypeOK /\ ImportsPrepared, [Next]_vars
             PROVE  ImportTypeOK'
  OBVIOUS
<1> USE ImportAssumption
    DEF ImportTypeOK, guide, logoVars, jobVars, importVars
<1>1. CASE Day
  BY <1>1 DEF Day
<1>2. ASSUME NEW i \in Importers, NEW d \in Documents, Begin(i, d)
      PROVE  ImportTypeOK'
  BY <1>2 DEF Begin, Decision
<1>3. ASSUME NEW i \in Importers, Lookup(i)
      PROVE  ImportTypeOK'
  BY <1>3 DEF Lookup
<1>4. ASSUME NEW i \in Importers, Commit(i)
      PROVE  ImportTypeOK'
  <2>1. /\ DOMAIN channels' \subseteq Stations
        /\ programmes' \subseteq DOMAIN channels'
    BY <1>4 DEF Commit, Channels, Referenced, ImportsPrepared
  <2>2. logos' \in [Stations -> {"absent", "none", "catalog", "xmltv"}]
    <3>1. \A st \in Saved(i) : update[i][st] \in {"catalog", "none", "xmltv"}
      BY <1>4 DEF Commit, ImportsPrepared, Asks, Saved
    <3> QED
      BY <1>4, <3>1 DEF Commit
  <2>3. /\ wait' \in [Stations -> 0 .. RetryDays]
        /\ asked' \in [Stations -> 0 .. RetryDays]
    BY <1>4 DEF Commit
  <2>4. /\ pc' \in [Importers -> {"idle", "lookup", "commit"}]
        /\ doc' \in [Importers -> Documents \cup {NoDocument}]
        /\ update' \in [Importers -> [Stations -> Updates]]
    BY <1>4 DEF Commit, Leave, NoUpdate, Updates
  <2>5. /\ stale' \in [Importers -> SUBSET Stations]
        /\ lost' \subseteq Stations /\ missed' \subseteq Jobs
    BY <1>4 DEF Commit, Saved
  <2> QED
    BY <1>4, <2>1, <2>2, <2>3, <2>4, <2>5 DEF Commit, Updates
<1>5. ASSUME NEW i \in Importers, Abort(i)
      PROVE  ImportTypeOK'
  BY <1>5 DEF Abort, Leave, NoUpdate, Answered
<1>6. ASSUME NEW j \in Jobs, Schedule(j)
      PROVE  ImportTypeOK'
  BY <1>6 DEF Schedule, Becomes, Programmed
<1>7. ASSUME NEW j \in Jobs, ClaimDue(j) \/ Requeue(j) \/ Finish(j)
      PROVE  ImportTypeOK'
  BY <1>7 DEF ClaimDue, Requeue, Finish, Becomes
<1>8. CASE UNCHANGED vars
  BY <1>8 DEF vars
<1> QED
  BY <1>1, <1>2, <1>3, <1>4, <1>5, <1>6, <1>7, <1>8 DEF Next

LEMMA PreparedKept ==
    ImportTypeOK /\ ImportsPrepared /\ [Next]_vars
        => ImportsPrepared'
<1> SUFFICES ASSUME ImportTypeOK /\ ImportsPrepared, [Next]_vars
             PROVE  ImportsPrepared'
  OBVIOUS
<1> USE ImportAssumption
    DEF ImportTypeOK, ImportsPrepared, Asks, NoUpdate, guide, logoVars,
        jobVars, importVars
<1>1. CASE Day
  BY <1>1 DEF Day
<1>2. ASSUME NEW i \in Importers, NEW d \in Documents, Begin(i, d)
      PROVE  ImportsPrepared'
  BY <1>2 DEF Begin, Decision
<1>3. ASSUME NEW i \in Importers, Lookup(i)
      PROVE  ImportsPrepared'
  BY <1>3 DEF Lookup
<1>4. ASSUME NEW i \in Importers, Commit(i)
      PROVE  ImportsPrepared'
  BY <1>4 DEF Commit, Leave, NumbersCorrected, Referenced
<1>5. ASSUME NEW i \in Importers, Abort(i)
      PROVE  ImportsPrepared'
  BY <1>5 DEF Abort, Leave
<1>6. ASSUME NEW j \in Jobs, Schedule(j)
      PROVE  ImportsPrepared'
  BY <1>6 DEF Schedule, Becomes, Programmed
<1>7. ASSUME NEW j \in Jobs, ClaimDue(j) \/ Requeue(j) \/ Finish(j)
      PROVE  ImportsPrepared'
  BY <1>7 DEF ClaimDue, Requeue, Finish, Becomes
<1>8. CASE UNCHANGED vars
  BY <1>8 DEF vars
<1> QED
  BY <1>1, <1>2, <1>3, <1>4, <1>5, <1>6, <1>7, <1>8 DEF Next

(* An answer is in hand until an import saves what it has for the station. *)
LEMMA UnsavedKept ==
    ASSUME ImportTypeOK, ImportsPrepared, [Next]_vars,
           NEW st \in Stations, Unsaved(st)
    PROVE  Unsaved(st)' \/ \E i \in Importers : Commit(i) /\ st \in Saved(i)
<1> USE DEF ImportTypeOK, ImportsPrepared, Unsaved, Answered, NoUpdate,
            logoVars, importVars
<1>1. CASE Day \/ UNCHANGED vars
  BY <1>1 DEF Day, vars
<1>2. ASSUME NEW i \in Importers, NEW d \in Documents, Begin(i, d)
      PROVE  Unsaved(st)'
  <2>1. \A k \in Importers : st \in Answered(k) => k # i
    BY <1>2 DEF Begin
  <2> QED
    BY <1>2, <2>1 DEF Begin
<1>3. ASSUME NEW i \in Importers, Lookup(i) PROVE Unsaved(st)'
  BY <1>3 DEF Lookup, Asks
<1>4. ASSUME NEW i \in Importers, Commit(i), st \notin Saved(i)
      PROVE  Unsaved(st)'
  <2>1. st \notin Answered(i)
    BY <1>4 DEF Saved
  <2> QED
    BY <1>4, <2>1 DEF Commit, Leave
<1>5. ASSUME NEW i \in Importers, Abort(i) PROVE Unsaved(st)'
  BY <1>5 DEF Abort, Leave
<1>6. ASSUME NEW j \in Jobs,
             Schedule(j) \/ ClaimDue(j) \/ Requeue(j) \/ Finish(j)
      PROVE  Unsaved(st)'
  BY <1>6 DEF Schedule, ClaimDue, Requeue, Finish
<1> QED
  BY <1>1, <1>2, <1>3, <1>4, <1>5, <1>6 DEF Next

(* What is looked up is in hand. *)
LEMMA LookedUp ==
    ASSUME ImportTypeOK, NEW i \in Importers, Lookup(i), NEW st \in Asks(i)
    PROVE  Unsaved(st)'
  BY DEF ImportTypeOK, Lookup, Asks, Unsaved, Answered

(* A lookup saves nothing. *)
LEMMA LookupSavesNothing ==
    ASSUME ImportTypeOK, NEW i \in Importers, Lookup(i)
    PROVE  \A q \in Importers : ~Commit(q)
<1>1. /\ pc \in [Importers -> {"idle", "lookup", "commit"}]
      /\ pc[i] = "lookup" /\ pc' = [pc EXCEPT ![i] = "commit"]
  BY DEF ImportTypeOK, Lookup
<1>2. \A q \in Importers :
        Commit(q) => pc[q] = "commit" /\ pc' = [pc EXCEPT ![q] = "idle"]
  BY DEF Commit, Leave
<1> QED
  BY <1>1, <1>2

LEMMA DecidedKept ==
    ImportTypeOK /\ ImportsPrepared /\ AnswerRemembered /\ DecidedFromRow /\
        [Next]_vars
        => DecidedFromRow'
<1> SUFFICES ASSUME ImportTypeOK /\ ImportsPrepared /\ AnswerRemembered /\
                    DecidedFromRow, [Next]_vars,
                    NEW k \in Importers, NEW st \in Stations
             PROVE  /\ update'[k][st] # "keep" /\ HasLogo(st)'
                          => st \in stale'[k]
                    /\ update'[k][st] = "ask"
                          => \/ asked'[st] = 0 \/ st \in stale'[k]
                             \/ Unsaved(st)'
  BY DEF DecidedFromRow
<1>0. (\A q \in Importers : ~Commit(q)) /\ Unsaved(st) => Unsaved(st)'
  BY UnsavedKept
<1> USE ImportAssumption
    DEF ImportTypeOK, DecidedFromRow, HasLogo, guide, logoVars, jobVars,
        importVars
<1>1. CASE Day
  BY <1>1, UnsavedKept DEF Day, ImportsPrepared, NoUpdate
<1>2. ASSUME NEW i \in Importers, NEW d \in Documents, Begin(i, d)
      PROVE  /\ update'[k][st] # "keep" /\ HasLogo(st)' => st \in stale'[k]
             /\ update'[k][st] = "ask"
                   => asked'[st] = 0 \/ st \in stale'[k] \/ Unsaved(st)'
  <2>0. Unsaved(st) => Unsaved(st)'
    <3>1. \A q \in Importers : ~Commit(q)
      BY <1>2 DEF Begin, Commit, Leave
    <3> QED
      BY <3>1, UnsavedKept
  <2>1. CASE k = i
    <3>1. update'[k][st] = Decision(d, st)
      BY <1>2, <2>1 DEF Begin
    <3>2. HasLogo(st) => Decision(d, st) = "keep"
      BY DEF Decision
    <3>3. Decision(d, st) = "ask" => ~HasLogo(st) /\ ~RecentlyMissing(st)
      BY DEF Decision
    <3>4. ~HasLogo(st) /\ ~RecentlyMissing(st) => asked[st] = 0 \/ Unsaved(st)
      BY DEF AnswerRemembered, RecentlyMissing
    <3> QED
      BY <1>2, <2>0, <3>1, <3>2, <3>3, <3>4 DEF Begin
  <2>2. CASE k # i
    BY <1>2, <2>0, <2>2 DEF Begin
  <2> QED
    BY <2>1, <2>2
<1>3. ASSUME NEW i \in Importers, Lookup(i)
      PROVE  /\ update'[k][st] # "keep" /\ HasLogo(st)' => st \in stale'[k]
             /\ update'[k][st] = "ask"
                   => asked'[st] = 0 \/ st \in stale'[k] \/ Unsaved(st)'
  <2>1. /\ UNCHANGED <<logos, stale>>
        /\ update'[k][st] # "keep" => update[k][st] # "keep"
    BY <1>3 DEF Lookup, Asks
  <2>2. CASE st \in Asks(i)
    BY <1>3, <2>1, <2>2, LookedUp
  <2>3. CASE st \notin Asks(i)
    <3>1. asked'[st] = asked[st] /\ update'[k][st] = update[k][st]
      BY <1>3, <2>3 DEF Lookup, Asks
    <3>2. \A q \in Importers : ~Commit(q)
      BY <1>3, LookupSavesNothing
    <3>3. Unsaved(st) => Unsaved(st)'
      BY <1>0, <3>2
    <3> QED
      BY <2>1, <3>1, <3>3
  <2> QED
    BY <2>2, <2>3
<1>4. ASSUME NEW i \in Importers, Commit(i)
      PROVE  /\ update'[k][st] # "keep" /\ HasLogo(st)' => st \in stale'[k]
             /\ update'[k][st] = "ask"
                   => asked'[st] = 0 \/ st \in stale'[k] \/ Unsaved(st)'
  <2>1. CASE k = i
    BY <1>4, <2>1 DEF Commit, Leave, NoUpdate
  <2>2. CASE k # i /\ st \in Saved(i)
    BY <1>4, <2>2 DEF Commit
  <2>3. CASE k # i /\ st \notin Saved(i)
    <3>1. /\ logos'[st] = logos[st] /\ stale[k] \subseteq stale'[k]
          /\ update'[k] = update[k] /\ asked' = asked
      BY <1>4, <2>3 DEF Commit, Leave
    <3>2. \A q \in Importers : Commit(q) => q = i
      BY <1>4 DEF Commit, Leave
    <3> QED
      BY <2>3, <3>1, <3>2, UnsavedKept
  <2> QED
    BY <2>1, <2>2, <2>3
<1>5. ASSUME NEW i \in Importers, Abort(i)
      PROVE  /\ update'[k][st] # "keep" /\ HasLogo(st)' => st \in stale'[k]
             /\ update'[k][st] = "ask"
                   => asked'[st] = 0 \/ st \in stale'[k] \/ Unsaved(st)'
  <2>1. /\ UNCHANGED <<logos, stale, asked>>
        /\ update'[k][st] # "keep" => update'[k][st] = update[k][st]
    BY <1>5 DEF Abort, Leave, NoUpdate
  <2>2. Unsaved(st) => Unsaved(st)'
    BY <1>5 DEF Abort, Leave, Unsaved, Answered
  <2> QED
    BY <2>1, <2>2
<1>6. ASSUME NEW j \in Jobs,
             Schedule(j) \/ ClaimDue(j) \/ Requeue(j) \/ Finish(j)
      PROVE  UNCHANGED <<logoVars, importVars>>
  BY <1>6 DEF Schedule, ClaimDue, Requeue, Finish
<1>7. CASE UNCHANGED <<logoVars, importVars>>
  BY <1>7 DEF Unsaved, Answered
<1> QED
  BY <1>1, <1>2, <1>3, <1>4, <1>5, <1>6, <1>7 DEF Next, vars

LEMMA AnswerKept ==
    ImportTypeOK /\ ImportsPrepared /\ AnswerRemembered /\ [Next]_vars
        => AnswerRemembered'
<1> SUFFICES ASSUME ImportTypeOK /\ ImportsPrepared /\ AnswerRemembered,
                    [Next]_vars, NEW st \in Stations, asked'[st] > 0
             PROVE  \/ HasLogo(st)'
                    \/ logos'[st] = "none" /\ wait'[st] >= asked'[st]
                    \/ Unsaved(st)'
  BY DEF AnswerRemembered
<1>0. (\A q \in Importers : ~Commit(q)) /\ Unsaved(st) => Unsaved(st)'
  BY UnsavedKept
<1> DEFINE Remembered == \/ HasLogo(st)'
                         \/ logos'[st] = "none" /\ wait'[st] >= asked'[st]
                         \/ Unsaved(st)'
<1> USE ImportAssumption
    DEF ImportTypeOK, AnswerRemembered, HasLogo, guide, logoVars, jobVars,
        importVars
<1>1. CASE Day
  <2>1. asked[st] > 0 /\ logos' = logos
    BY <1>1 DEF Day
  <2>2. ~\E i \in Importers : Commit(i)
    BY <1>1 DEF Day, Commit
  <2>3. wait[st] >= asked[st] => wait'[st] >= asked'[st]
    BY <1>1, <2>1 DEF Day
  <2> QED
    BY <2>1, <2>2, <2>3, UnsavedKept
<1>2. ASSUME NEW i \in Importers, Lookup(i) PROVE Remembered
  <2>1. CASE st \in Asks(i)
    BY <1>2, <2>1, LookedUp
  <2>2. CASE st \notin Asks(i)
    <3>1. asked'[st] = asked[st] /\ UNCHANGED <<logos, wait>>
      BY <1>2, <2>2 DEF Lookup
    <3>2. Unsaved(st) => Unsaved(st)'
      BY <1>0, <1>2, LookupSavesNothing
    <3> QED
      BY <3>1, <3>2
  <2> QED
    BY <2>1, <2>2
<1>3. ASSUME NEW i \in Importers, Commit(i) PROVE Remembered
  <2>1. CASE st \in Saved(i)
    BY <1>3, <2>1 DEF Commit, Saved, ImportsPrepared, Asks
  <2>2. CASE st \notin Saved(i)
    <3>1. /\ logos'[st] = logos[st] /\ wait'[st] = wait[st]
          /\ asked' = asked
      BY <1>3, <2>2 DEF Commit
    <3>2. \A q \in Importers : Commit(q) => q = i
      BY <1>3 DEF Commit, Leave
    <3> QED
      BY <2>2, <3>1, <3>2, UnsavedKept
  <2> QED
    BY <2>1, <2>2
<1>4. ASSUME NEW i \in Importers,
             Abort(i) \/ \E d \in Documents : Begin(i, d)
      PROVE  Remembered
  <2>1. UNCHANGED <<logos, wait, asked>>
    BY <1>4 DEF Abort, Begin
  <2>2. CASE Unsaved(st)
    <3>1. CASE Abort(i)
      BY <2>2, <3>1 DEF Abort, Leave, Unsaved, Answered
    <3>2. CASE \E d \in Documents : Begin(i, d)
      <4>1. \A q \in Importers : ~Commit(q)
        BY <3>2 DEF Begin, Commit, Leave
      <4>2. Unsaved(st)'
        BY <1>0, <2>2, <4>1
      <4> QED
        BY <4>2
    <3> QED
      BY <1>4, <3>1, <3>2
  <2> QED
    BY <2>1, <2>2
<1>5. ASSUME NEW j \in Jobs,
             Schedule(j) \/ ClaimDue(j) \/ Requeue(j) \/ Finish(j)
      PROVE  UNCHANGED <<logoVars, importVars>>
  BY <1>5 DEF Schedule, ClaimDue, Requeue, Finish
<1>6. CASE UNCHANGED <<logoVars, importVars>>
  BY <1>6 DEF Unsaved, Answered
<1> QED
  BY <1>1, <1>2, <1>3, <1>4, <1>5, <1>6 DEF Next, vars

LEMMA NumbersKeptRight ==
    ImportTypeOK /\ ChannelsCopied /\ [Next]_vars
        => ChannelsCopied'
<1> SUFFICES ASSUME ImportTypeOK /\ ChannelsCopied, [Next]_vars
             PROVE  ChannelsCopied'
  OBVIOUS
<1> USE ImportAssumption
    DEF ImportTypeOK, ChannelsCopied, NumberCurrent, guide, logoVars, jobVars,
        importVars
<1>1. CASE Day
  BY <1>1 DEF Day
<1>2. ASSUME NEW i \in Importers, NEW d \in Documents, Begin(i, d)
      PROVE  ChannelsCopied'
  BY <1>2 DEF Begin, Decision
<1>3. ASSUME NEW i \in Importers, Lookup(i)
      PROVE  ChannelsCopied'
  BY <1>3 DEF Lookup
<1>4. ASSUME NEW i \in Importers, Commit(i)
      PROVE  ChannelsCopied'
  BY <1>4 DEF Commit, Leave, NumbersCorrected, Referenced
<1>5. ASSUME NEW i \in Importers, Abort(i)
      PROVE  ChannelsCopied'
  BY <1>5 DEF Abort, Leave
<1>6. ASSUME NEW j \in Jobs, Schedule(j)
      PROVE  ChannelsCopied'
  <2>1. PICK st \in Programmed :
          channel' = [channel EXCEPT ![j] =
                        [id |-> st, number |-> channels[st].number]]
    BY <1>6 DEF Schedule
  <2>2. /\ channel'[j] = [id |-> st, number |-> channels[st].number]
        /\ \A k \in Jobs \ {j} : channel'[k] = channel[k] /\ job'[k] = job[k]
    BY <1>6, <2>1 DEF Schedule, Becomes
  <2>3. \A k \in Jobs : NumberCurrent(k)'
    BY <1>6, <2>2 DEF Schedule
  <2>4. channel' = [k \in Jobs |->
                      [id |-> channel'[k].id, number |-> channel'[k].number]]
    BY <2>1, <2>2
  <2> QED
    BY <2>3, <2>4
<1>7. ASSUME NEW j \in Jobs, ClaimDue(j) \/ Requeue(j) \/ Finish(j)
      PROVE  ChannelsCopied'
  <2>1. UNCHANGED <<channels, channel>>
    BY <1>7 DEF ClaimDue, Requeue, Finish
  <2>2. \A k \in Jobs :
          job'[k] \in {"scheduled", "recording"} =>
              /\ job[k] \in {"scheduled", "recording"}
              /\ k \in missed => k \in missed'
    BY <1>7 DEF ClaimDue, Requeue, Finish, Becomes
  <2>3. ASSUME NEW k \in Jobs PROVE NumberCurrent(k)'
    <3>1. NumberCurrent(k)
      OBVIOUS
    <3> QED
      BY <2>1, <2>2, <3>1
  <2> QED
    BY <2>1, <2>3
<1>8. CASE UNCHANGED vars
  BY <1>8 DEF vars
<1> QED
  BY <1>1, <1>2, <1>3, <1>4, <1>5, <1>6, <1>7, <1>8 DEF Next

LEMMA ImportStep == ImportInv /\ [Next]_vars => ImportInv'
  BY TypesKept, PreparedKept, DecidedKept, AnswerKept, NumbersKeptRight
  DEF ImportInv

THEOREM ImportInvariant == Spec => []ImportInv
  BY ImportInitial, ImportStep, PTL DEF Spec

-----------------------------------------------------------------------------
(* What follows *)

(* Every variable keeps its type; programmes are of channels in the table, *)
(* and the timers stay within the retry interval.                          *)
THEOREM ImportTypeCorrect == Spec => []ImportTypeOK
<1>1. ImportInv => ImportTypeOK
  BY DEF ImportInv
<1> QED
  BY <1>1, ImportInvariant, PTL

(* Recordings that are scheduled or requeued carry the number their        *)
(* station has in the guide, unless an import was saved while they ran.    *)
THEOREM NumbersAlwaysFollow == Spec => []NumberFollowsGuide
<1>1. ImportInv => NumberFollowsGuide
  BY DEF ImportInv, ChannelsCopied, NumberCurrent, NumberFollowsGuide
<1> QED
  BY <1>1, ImportInvariant, PTL

(* Only an import that read the table before a logo was chosen replaces it.*)
THEOREM FirstChoiceStays == Spec => FirstChoiceKept
<1>1. ImportInv /\ [Next]_vars =>
        [\A st \in Stations :
            HasLogo(st) /\ logos'[st] # logos[st] =>
                \E i \in Importers : pc'[i] # pc[i] /\ st \in stale[i]]_vars
  <2> SUFFICES ASSUME ImportInv, [Next]_vars, NEW st \in Stations,
                      HasLogo(st), logos'[st] # logos[st]
               PROVE  \E i \in Importers : pc'[i] # pc[i] /\ st \in stale[i]
    OBVIOUS
  <2>1. PICK i \in Importers : Commit(i)
    BY DEF Next, Day, Begin, Lookup,
           Abort, Schedule, ClaimDue, Requeue, Finish, vars, logoVars
  <2>2. update[i][st] # "keep"
    BY <2>1 DEF Commit, Saved, ImportInv, ImportTypeOK
  <2>3. st \in stale[i]
    BY <2>2 DEF ImportInv, DecidedFromRow
  <2>4. pc'[i] # pc[i]
    BY <2>1 DEF Commit, Leave, ImportInv, ImportTypeOK
  <2> QED
    BY <2>3, <2>4
<1> QED
  BY <1>1, ImportInvariant, PTL DEF Spec, FirstChoiceKept

(* For a week after the catalog was asked for a station it is asked again  *)
(* only by an import that could not know the answer: it read the table     *)
(* before the answer was saved, another import still has it in hand, or    *)
(* the import that had it failed and no answer was saved since.            *)
THEOREM CatalogAskedWeekly == Spec => RetriedWeekly
<1>1. ImportInv /\ [Next]_vars =>
        [\A i \in Importers : pc[i] = "lookup" /\ pc'[i] = "commit" =>
            \A st \in Asks(i) :
                \/ asked[st] = 0 \/ st \in stale[i] \/ st \in lost
                \/ \E k \in Importers : st \in Answered(k)]_vars
  BY DEF ImportInv, DecidedFromRow, Unsaved, Asks
<1> QED
  BY <1>1, ImportInvariant, PTL DEF Spec, RetriedWeekly

=============================================================================
