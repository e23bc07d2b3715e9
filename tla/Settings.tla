------------------------------- MODULE Settings -------------------------------
(***************************************************************************)
(* The two settings the service keeps twice, in the database and in        *)
(* memory: the account of internal/httpapi/auth.go with its cached copy,   *)
(* and the tuner address of configureTuner with config.TunerAddress.  A    *)
(* handler writes the row first and the copy later; the copy of the        *)
(* account is filled from the row by whoever finds it empty.               *)
(*                                                                         *)
(* The password hash and the session secret of an account are always made  *)
(* together, so the request that made them names both: knowing a password  *)
(* and holding a cookie signed with the secret beside it are one thing.    *)
(***************************************************************************)
EXTENDS Integers

CONSTANTS
    Requests,   \* bound: the requests ever made
    None,       \* no account, no address
    MaxCrashes  \* bound: restarts of the process

ASSUME SettingsAssumption ==
    /\ None \notin Requests
    /\ MaxCrashes \in Nat

VARIABLES
    account,   \* the authentication row: who made the credentials, or None
    cached,    \* authService.credentials and configured
    loaded,    \* authService.loaded
    address,   \* hdhomerun_address in the metadata table
    tuner,     \* config.TunerAddress
    op,        \* what each request asks for
    pc,        \* where its handler is
    key,       \* the password or cookie it presents
    mine,      \* the handler's copy of the credentials
    crashes,
    past,      \* history: credentials the row held before
    dead,      \* history: those replaced by a change that has returned
    known,     \* history: dead when the request arrived
    overtaken  \* history: the requests whose row another one replaced before
               \* they made it the copy

rows == <<account, address>>
copies == <<cached, loaded, tuner>>
request == <<op, key, known>>
history == <<past, dead, overtaken>>
vars == <<rows, copies, request, pc, mine, crashes, history>>

AccountWrites == {"setup", "change"}

Init ==
    /\ account = None /\ address = None
    /\ cached = None /\ loaded = FALSE /\ tuner = None
    /\ op = [r \in Requests |-> "none"]
    /\ pc = [r \in Requests |-> "none"]
    /\ key = [r \in Requests |-> None]
    /\ mine = [r \in Requests |-> None]
    /\ known = [r \in Requests |-> {}]
    /\ crashes = 0
    /\ past = {} /\ dead = {} /\ overtaken = {}

Goto(r, from, to) == pc[r] = from /\ pc' = [pc EXCEPT ![r] = to]

(* A request arrives: POST /api/auth/setup, /api/auth/password or          *)
(* /api/setup/tuner, or a login or any request with a session cookie.  The *)
(* client knows the credentials there are and were, or presents others.    *)
Arrive(r) ==
    /\ \/ /\ \E o \in {"change", "enter"} : op' = [op EXCEPT ![r] = o]
          /\ \E k \in {r} \cup past \cup ({account} \ {None}) :
                key' = [key EXCEPT ![r] = k]
          /\ Goto(r, "none", "ask")
       \/ /\ op' = [op EXCEPT ![r] = "setup"]
          /\ Goto(r, "none", "ask")
          /\ UNCHANGED key
       \/ /\ op' = [op EXCEPT ![r] = "configure"]
          /\ Goto(r, "none", "write")
          /\ UNCHANGED key
    /\ known' = [known EXCEPT ![r] = dead]
    /\ UNCHANGED <<rows, copies, mine, crashes, history>>

-----------------------------------------------------------------------------
(* getCredentials *)

Ask(r) ==
    /\ IF loaded
       THEN Goto(r, "ask", "have") /\ mine' = [mine EXCEPT ![r] = cached]
       ELSE Goto(r, "ask", "read") /\ UNCHANGED mine
    /\ UNCHANGED <<rows, copies, request, crashes, history>>

(* AuthCredentials: a read that fails ends the request with an error.      *)
ReadRow(r) ==
    /\ \/ Goto(r, "read", "fill") /\ mine' = [mine EXCEPT ![r] = account]
       \/ Goto(r, "read", "refused") /\ UNCHANGED mine
    /\ UNCHANGED <<rows, copies, request, crashes, history>>

(* Mutant: the copy is filled and not marked as loaded. *)
FillUnmarked(r) ==
    /\ Goto(r, "fill", "have")
    /\ cached' = IF loaded THEN cached ELSE mine[r]
    /\ mine' = [mine EXCEPT ![r] = cached']
    /\ UNCHANGED <<rows, loaded, tuner, request, crashes, history>>

(* Mutant: nobody looks whether the copy was filled meanwhile. *)
FillAlways(r) ==
    /\ Goto(r, "fill", "have")
    /\ cached' = mine[r] /\ loaded' = TRUE
    /\ UNCHANGED <<rows, tuner, request, mine, crashes, history>>

Fill(r) ==
    /\ Goto(r, "fill", "have")
    /\ cached' = IF loaded THEN cached ELSE mine[r]
    /\ loaded' = TRUE
    /\ mine' = [mine EXCEPT ![r] = cached']
    /\ UNCHANGED <<rows, tuner, request, crashes, history>>

-----------------------------------------------------------------------------
(* What the handler does with the credentials *)

(* setup refuses when there is an account, changePassword when there is    *)
(* none or the current password is another.                                *)
Allowed(r) ==
    \/ op[r] = "setup" /\ mine[r] = None
    \/ op[r] = "change" /\ mine[r] # None /\ key[r] = mine[r]

Forgets(r) ==
    /\ mine' = [mine EXCEPT ![r] = None]
    /\ UNCHANGED <<rows, copies, request, crashes, history>>

Proceed(r) ==
    /\ Allowed(r)
    /\ Goto(r, "have", "write")
    /\ Forgets(r)

Refuse(r) ==
    /\ op[r] \in AccountWrites /\ ~Allowed(r)
    /\ Goto(r, "have", "refused")
    /\ Forgets(r)

(* login, and sessionUser for every other request *)
Enter(r) ==
    /\ op[r] = "enter"
    /\ Goto(r, "have", IF mine[r] # None /\ key[r] = mine[r] THEN "entered"
                                                             ELSE "refused")
    /\ Forgets(r)

-----------------------------------------------------------------------------
(* The row, then the copy *)

(* Those that have written the row and not the copy yet. *)
Publishing(ops) == {r \in Requests : op[r] \in ops /\ pc[r] = "publish"}

Overtakes(r, ops) == overtaken' = overtaken \cup (Publishing(ops) \ {r})

(* Mutant: INSERT ... ON CONFLICT DO UPDATE. *)
CreateOverwrites(r) ==
    /\ op[r] = "setup"
    /\ Goto(r, "write", "publish")
    /\ account' = r
    /\ past' = past \cup ({account} \ {None})
    /\ Overtakes(r, AccountWrites)
    /\ UNCHANGED <<address, copies, request, mine, crashes, dead>>

(* CreateAuthCredentials: INSERT ... ON CONFLICT DO NOTHING *)
Create(r) ==
    /\ op[r] = "setup"
    /\ \/ /\ account = None
          /\ account' = r
          /\ Goto(r, "write", "publish")
          /\ Overtakes(r, AccountWrites)
       \/ /\ account # None
          /\ Goto(r, "write", "refused")
          /\ UNCHANGED <<account, overtaken>>
    /\ UNCHANGED <<address, copies, request, mine, crashes, past, dead>>

(* UpdateAuthCredentials *)
Update(r) ==
    /\ op[r] = "change"
    /\ Goto(r, "write", "publish")
    /\ account' = r
    /\ past' = past \cup {account}
    /\ Overtakes(r, AccountWrites)
    /\ UNCHANGED <<address, copies, request, mine, crashes, dead>>

(* SetHDHomeRunAddress *)
Save(r) ==
    /\ op[r] = "configure"
    /\ Goto(r, "write", "publish")
    /\ address' = r
    /\ Overtakes(r, {"configure"})
    /\ UNCHANGED <<account, copies, request, mine, crashes, past, dead>>

(* The row could not be written, or the tuner does not answer the test. *)
WriteFails(r) ==
    /\ Goto(r, "write", "refused")
    /\ UNCHANGED <<rows, copies, request, mine, crashes, history>>

(* Mutant: the copy is left as it was. *)
PublishNothing(r) ==
    /\ op[r] \in AccountWrites
    /\ Goto(r, "publish", "done")
    /\ dead' = dead \cup past
    /\ UNCHANGED <<rows, copies, request, mine, crashes, past, overtaken>>

PublishAccount(r) ==
    /\ op[r] \in AccountWrites
    /\ Goto(r, "publish", "done")
    /\ cached' = r /\ loaded' = TRUE
    /\ dead' = dead \cup past
    /\ UNCHANGED <<rows, tuner, request, mine, crashes, past, overtaken>>

(* TunerAddress.SetAddress *)
PublishAddress(r) ==
    /\ op[r] = "configure"
    /\ Goto(r, "publish", "done")
    /\ tuner' = r
    /\ UNCHANGED <<rows, cached, loaded, request, mine, crashes, history>>

(* The process stops at any point and starts again: main reads the         *)
(* address, the account is read when somebody asks.                        *)
Restart ==
    /\ crashes < MaxCrashes
    /\ crashes' = crashes + 1
    /\ tuner' = address
    /\ cached' = None /\ loaded' = FALSE
    /\ pc' = [r \in Requests |->
                IF pc[r] \in {"none", "done", "refused", "entered"} THEN pc[r]
                                                                    ELSE "lost"]
    /\ mine' = [r \in Requests |-> None]
    /\ UNCHANGED <<rows, request, history>>

Next ==
    \/ Restart
    \/ \E r \in Requests :
        \/ Arrive(r) \/ Ask(r) \/ ReadRow(r) \/ Fill(r)
        \/ Proceed(r) \/ Refuse(r) \/ Enter(r)
        \/ Create(r) \/ Update(r) \/ Save(r) \/ WriteFails(r)
        \/ PublishAccount(r) \/ PublishAddress(r)

Spec == Init /\ [][Next]_vars

-----------------------------------------------------------------------------
(* Properties *)

Credentials == Requests \cup {None}
Operations == {"none", "setup", "change", "enter", "configure"}
Steps == {"none", "ask", "read", "fill", "have", "write", "publish", "done",
          "refused", "entered", "lost"}

SettingsTypeOK ==
    /\ account \in Credentials /\ cached \in Credentials
    /\ address \in Credentials /\ tuner \in Credentials
    /\ loaded \in BOOLEAN /\ (~loaded => cached = None)
    /\ op \in [Requests -> Operations] /\ pc \in [Requests -> Steps]
    /\ key \in [Requests -> Credentials] /\ mine \in [Requests -> Credentials]
    /\ crashes \in 0 .. MaxCrashes
    /\ past \subseteq Requests /\ dead \subseteq Requests
    /\ known \in [Requests -> SUBSET Requests]
    /\ overtaken \subseteq Requests

(* Between operations a copy in memory says what the database says,        *)
(* through restarts and whoever fills the cache, unless the last to write  *)
(* the copy had been overtaken by another writer of the row.               *)
CopiesFollowRows ==
    /\ Publishing(AccountWrites) = {} /\ loaded
        => cached = account \/ cached \in overtaken
    /\ Publishing({"configure"}) = {}
        => tuner = address \/ tuner \in overtaken

(* store/store.go:681-683: one set-up succeeds in the life of the          *)
(* database, however many meet and whatever restarts between them.         *)
OneSetup ==
    \A q, r \in Requests :
        /\ op[q] = "setup" /\ op[r] = "setup"
        /\ pc[q] = "done" /\ pc[r] = "done"
        => q = r

(* store/store.go:699-702: a request made after a password change returned *)
(* is not let in with a password or a cookie from before it, unless with   *)
(* those of a change that was itself overtaken by another one.             *)
OldCredentialsRefused ==
    \A r \in Requests :
        pc[r] = "entered" => key[r] \notin known[r] \ overtaken

=============================================================================
