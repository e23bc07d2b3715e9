----------------------------- MODULE GuideImport -----------------------------
(***************************************************************************)
(* Store.ReplaceGuide and what it reads and writes: guide/xmltv.go parses  *)
(* a document, resolveChannelLogos decides on logos from the table it read *)
(* before the transaction, guide/logos.go asks public catalogs, and one    *)
(* transaction replaces channels and programmes, saves the logos and       *)
(* corrects the channel numbers of scheduled recordings.  Imports overlap: *)
(* the scheduler, a request and the tuner set-up each start their own.     *)
(* Beside them, recordings are scheduled, claimed, requeued and finished.  *)
(*                                                                         *)
(* A tick is a day; an import takes seconds, so none is under way when the *)
(* day changes.                                                            *)
(***************************************************************************)
EXTENDS Integers, Sequences

CONSTANTS
    Documents,  \* bound: the XMLTV bodies a provider answers with
    Stations,   \* channel ids
    Importers,  \* bound: imports at a time
    Jobs,       \* bound: recordings ever scheduled
    RetryDays   \* logoRetryInterval, in days

(* A document lists stations with their display names and whether they     *)
(* have a safe icon, and holds programmes, each of some station.  A        *)
(* display name is a virtual channel number, a text, or a number followed  *)
(* by a text; "5-1" and "5_1" are the number 5.1.                          *)
Blank == [number |-> 0, text |-> 0]
VirtualOnly(n) == n.number # 0 /\ n.text = 0
VirtualPrefix(n) == n.number # 0
Virtual(n) == [n EXCEPT !.text = 0]
DisplayNames == [number : Nat, text : Nat]

ASSUME ImportAssumption ==
    /\ RetryDays \in Nat \ {0}
    /\ \A d \in Documents :
        /\ d.listed \subseteq Stations /\ d.icons \subseteq Stations
        /\ d.airs \subseteq Stations
        /\ d.names \in [Stations -> Seq(DisplayNames)]

(* channelNames, the number: of the first name that is nothing else, or of *)
(* the first that begins with one, or the first name; the id of a station  *)
(* is a text here.  The name: the first without a number, or another one   *)
(* than the number.                                                        *)
Spoken(names) == SelectSeq(names, LAMBDA n : n # Blank)

ChannelNumber(st, names) ==
    LET spoken == Spoken(names)
        only == SelectSeq(spoken, VirtualOnly)
        led == SelectSeq(spoken, VirtualPrefix) IN
    IF spoken = <<>> THEN st
    ELSE IF only # <<>> THEN only[1]
    ELSE IF led # <<>> THEN Virtual(led[1])
    ELSE spoken[1]

ChannelName(st, names) ==
    LET spoken == Spoken(names)
        number == ChannelNumber(st, names)
        plain == SelectSeq(spoken, LAMBDA n : ~VirtualPrefix(n))
        other == SelectSeq(spoken, LAMBDA n : n # number) IN
    IF spoken = <<>> THEN st
    ELSE IF plain # <<>> THEN plain[1]
    ELSE IF other # <<>> THEN other[1]
    ELSE number

Channels(d) ==
    [st \in d.listed |->
        [number |-> ChannelNumber(st, d.names[st]),
         name |-> ChannelName(st, d.names[st])]]

-----------------------------------------------------------------------------

VARIABLES
    channels,    \* the channels table, a function on the stations in it
    programmes,  \* the stations that have programmes in the table
    logos,       \* channel_logos: where the logo of a station is from
    wait,        \* days until a missing logo may be looked up again
    pc,          \* where each import is
    doc,         \* the document it imports
    update,      \* what it does about the logo of each station
    job,         \* the life of each recording
    channel,     \* its channel_id and channel_number
    stale,       \* history: stations whose logo row changed since each import
                 \* read the table
    asked,       \* history: days until a week has passed since the catalog was
                 \* asked for a station
    lost,        \* history: stations the catalog was asked for by an import
                 \* that was not saved, with no answer saved since
    missed       \* history: jobs recording while their number was corrected

guide == <<channels, programmes>>
logoVars == <<logos, wait, stale, asked, lost>>
jobVars == <<job, channel, missed>>
importVars == <<pc, doc, update>>
vars == <<guide, logoVars, jobVars, importVars>>

NoDocument == [listed |-> {}, icons |-> {}, airs |-> {},
               names |-> [st \in Stations |-> <<>>]]
NoUpdate == [st \in Stations |-> "keep"]
NoChannel == [id |-> "none", number |-> Blank]

Init ==
    /\ channels = [st \in {} |-> Blank] /\ programmes = {}
    /\ logos = [st \in Stations |-> "absent"]
    /\ wait = [st \in Stations |-> 0]
    /\ pc = [i \in Importers |-> "idle"]
    /\ doc = [i \in Importers |-> NoDocument]
    /\ update = [i \in Importers |-> NoUpdate]
    /\ job = [j \in Jobs |-> "new"] /\ channel = [j \in Jobs |-> NoChannel]
    /\ stale = [i \in Importers |-> {}]
    /\ asked = [st \in Stations |-> 0]
    /\ lost = {} /\ missed = {}

HasLogo(st) == logos[st] \in {"catalog", "xmltv"}
RecentlyMissing(st) == logos[st] = "none" /\ wait[st] > 0

-----------------------------------------------------------------------------
(* ReplaceGuide *)

(* Mutant: a new icon replaces the choice. *)
IconFirst(d, st) ==
    IF st \notin d.listed THEN "keep"
    ELSE IF st \in d.icons THEN "xmltv"
    ELSE IF HasLogo(st) \/ RecentlyMissing(st) THEN "keep"
    ELSE "ask"

(* Mutant: a missing logo is looked up by every import. *)
AskAlways(d, st) ==
    IF st \notin d.listed \/ HasLogo(st) THEN "keep"
    ELSE IF st \in d.icons THEN "xmltv"
    ELSE "ask"

(* resolveChannelLogos, for one channel *)
Decision(d, st) ==
    IF st \notin d.listed \/ HasLogo(st) THEN "keep"
    ELSE IF st \in d.icons THEN "xmltv"
    ELSE IF RecentlyMissing(st) THEN "keep"
    ELSE "ask"

(* ParseXMLTV and the read of the logo table *)
Begin(i, d) ==
    /\ pc[i] = "idle"
    /\ doc' = [doc EXCEPT ![i] = d]
    /\ update' = [update EXCEPT ![i] = [st \in Stations |-> Decision(d, st)]]
    /\ pc' = [pc EXCEPT ![i] = "lookup"]
    /\ stale' = [stale EXCEPT ![i] = {}]
    /\ UNCHANGED <<guide, logos, wait, asked, lost, jobVars>>

Asks(i) == {st \in Stations : update[i][st] = "ask"}

(* What the catalog answered and the transaction is going to save. *)
Answered(i) == {st \in Stations : update[i][st] \in {"catalog", "none"}}

(* ResolvePublicChannelLogos finds some of the stations it is asked for:   *)
(* the catalog may not know a station, or not answer.                      *)
Lookup(i) ==
    /\ pc[i] = "lookup"
    /\ \E found \in SUBSET Asks(i) :
        update' = [update EXCEPT ![i] = [st \in Stations |->
                    CASE st \in found            -> "catalog"
                      [] st \in Asks(i) \ found  -> "none"
                      [] OTHER                   -> @[st]]]
    /\ asked' = [st \in Stations |->
                    IF st \in Asks(i) THEN RetryDays ELSE asked[st]]
    /\ pc' = [pc EXCEPT ![i] = "commit"]
    /\ UNCHANGED <<guide, logos, wait, stale, lost, jobVars, doc>>

Leave(i) ==
    /\ pc' = [pc EXCEPT ![i] = "idle"]
    /\ doc' = [doc EXCEPT ![i] = NoDocument]
    /\ update' = [update EXCEPT ![i] = NoUpdate]

Saved(i) == {st \in Stations : update[i][st] # "keep"}

(* Mutant: recordings keep the number they were scheduled with. *)
NumbersKept(listing) == UNCHANGED channel

(* Mutant: without foreign keys. *)
AnyDocument(d) == TRUE

(* UPDATE recordings SET channel_number ... WHERE status='scheduled' *)
NumbersCorrected(listing) ==
    channel' = [j \in Jobs |->
                  IF job[j] = "scheduled" /\ channel[j].id \in DOMAIN listing
                  THEN [channel[j] EXCEPT
                          !.number = listing[channel[j].id].number]
                  ELSE channel[j]]

(* A programme must reference a channel of the document. *)
Referenced(d) == d.airs \subseteq d.listed

(* The transaction *)
Commit(i) ==
    /\ pc[i] = "commit"
    /\ Referenced(doc[i])
    /\ channels' = Channels(doc[i])
    /\ programmes' = doc[i].airs
    /\ logos' = [st \in Stations |->
                    IF st \in Saved(i) THEN update[i][st] ELSE logos[st]]
    /\ wait' = [st \in Stations |->
                    IF st \in Saved(i) THEN RetryDays ELSE wait[st]]
    /\ lost' = lost \ Saved(i)
    /\ stale' = [k \in Importers |->
                    IF k = i THEN {} ELSE stale[k] \cup Saved(i)]
    /\ NumbersCorrected(channels')
    /\ missed' = (missed \ {j \in Jobs : job[j] = "scheduled"})
                    \cup {j \in Jobs : job[j] = "recording"}
    /\ Leave(i)
    /\ UNCHANGED <<asked, job>>

(* Rolled back: a foreign key fails, the client leaves, time is up.  The   *)
(* answers of the catalog go with it.                                      *)
Abort(i) ==
    /\ pc[i] = "commit"
    /\ Leave(i)
    /\ lost' = lost \cup Answered(i)
    /\ UNCHANGED <<guide, logos, wait, stale, asked, jobVars>>

-----------------------------------------------------------------------------
(* Recordings, as far as their channel is concerned *)

Becomes(j, from, to) == job[j] = from /\ job' = [job EXCEPT ![j] = to]

(* The programme's row joined with that of its channel. *)
Programmed == programmes \cap DOMAIN channels

Schedule(j) ==
    /\ Becomes(j, "new", "scheduled")
    /\ \E st \in Programmed :
        channel' = [channel EXCEPT ![j] =
                      [id |-> st, number |-> channels[st].number]]
    /\ UNCHANGED <<guide, logoVars, missed, importVars>>

ClaimDue(j) ==
    /\ Becomes(j, "scheduled", "recording")
    /\ UNCHANGED <<guide, logoVars, channel, missed, importVars>>

Requeue(j) ==
    /\ Becomes(j, "recording", "scheduled")
    /\ UNCHANGED <<guide, logoVars, channel, missed, importVars>>

Finish(j) ==
    /\ Becomes(j, "recording", "over")
    /\ missed' = missed \ {j}
    /\ UNCHANGED <<guide, logoVars, channel, importVars>>

Day ==
    /\ \A i \in Importers : pc[i] = "idle"
    /\ wait' = [st \in Stations |-> IF wait[st] > 0 THEN wait[st] - 1 ELSE 0]
    /\ asked' = [st \in Stations |->
                    IF asked[st] > 0 THEN asked[st] - 1 ELSE 0]
    /\ UNCHANGED <<guide, logos, stale, lost, jobVars, importVars>>

Next ==
    \/ Day
    \/ \E i \in Importers :
        \/ \E d \in Documents : Begin(i, d)
        \/ Lookup(i) \/ Commit(i) \/ Abort(i)
    \/ \E j \in Jobs : Schedule(j) \/ ClaimDue(j) \/ Requeue(j) \/ Finish(j)

Spec == Init /\ [][Next]_vars

-----------------------------------------------------------------------------
(* Properties *)

ImportTypeOK ==
    /\ DOMAIN channels \subseteq Stations
    /\ programmes \subseteq DOMAIN channels
    /\ logos \in [Stations -> {"absent", "none", "catalog", "xmltv"}]
    /\ wait \in [Stations -> 0 .. RetryDays]
    /\ asked \in [Stations -> 0 .. RetryDays]
    /\ pc \in [Importers -> {"idle", "lookup", "commit"}]
    /\ doc \in [Importers -> Documents \cup {NoDocument}]
    /\ update \in [Importers -> [Stations -> {"keep", "ask", "catalog", "none",
                                              "xmltv"}]]
    /\ job \in [Jobs -> {"new", "scheduled", "recording", "over"}]
    /\ stale \in [Importers -> SUBSET Stations] /\ lost \subseteq Stations
    /\ missed \subseteq Jobs

(* A station keeps the logo that was chosen first, unless an import that   *)
(* read the table before the choice is saved after it.                     *)
FirstChoiceKept ==
    [][\A st \in Stations :
        HasLogo(st) /\ logos'[st] # logos[st] =>
            \E i \in Importers : pc'[i] # pc[i] /\ st \in stale[i]]_vars

(* store/store.go:233-234: "resolveChannelLogos preserves a station's      *)
(* first successful automatic choice."                                     *)
ChoicePreserved ==
    [][\A st \in Stations : HasLogo(st) => logos'[st] = logos[st]]_vars

(* For a week after the catalog was asked for a station, no import asks it *)
(* again, but for one whose table had no answer yet: it read the table     *)
(* before the answer was saved, or another import has the answer in hand,  *)
(* or the import that had it was not saved (store/store.go:174-221 asks    *)
(* before the transaction, so a document that is refused, or a client that *)
(* leaves, has the next refresh ask again).                                *)
RetriedWeekly ==
    [][\A i \in Importers : pc[i] = "lookup" /\ pc'[i] = "commit" =>
        \A st \in Asks(i) :
            \/ asked[st] = 0 \/ st \in stale[i] \/ st \in lost
            \/ \E k \in Importers : st \in Answered(k)]_vars

(* store/store.go:234-235: "A missing result is retried only weekly so     *)
(* ordinary guide refreshes do not repeatedly contact the public catalog   *)
(* for a station with no available icon."                                  *)
AskedOnceAWeek ==
    [][\A i \in Importers : pc[i] = "lookup" /\ pc'[i] = "commit" =>
        \A st \in Asks(i) : asked[st] = 0]_vars

(* A scheduled recording is going to be tuned by the number its station    *)
(* has in the guide, unless it was recording when the guide changed and    *)
(* has been requeued since.                                                *)
NumberFollowsGuide ==
    \A j \in Jobs :
        /\ job[j] = "scheduled" /\ channel[j].id \in DOMAIN channels
        /\ j \notin missed
        => channel[j].number = channels[channel[j].id].number

=============================================================================
