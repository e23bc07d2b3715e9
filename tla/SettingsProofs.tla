---------------------------- MODULE SettingsProofs ----------------------------
(***************************************************************************)
(* Proofs about Settings, for any number of requests and restarts: between *)
(* operations the copies in memory follow the rows, one set-up succeeds,   *)
(* and replaced credentials are refused; writers that overlap spoil a copy *)
(* only until the next one, or the next restart, puts it right.            *)
(***************************************************************************)
EXTENDS Settings, TLAPS

-----------------------------------------------------------------------------
(* The inductive invariant *)

(* Before the first account nobody has seen one. *)
NoAccountYet ==
    account = None =>
        /\ cached = None
        /\ \A r \in Requests :
            /\ mine[r] = None
            /\ op[r] \in AccountWrites => pc[r] \notin {"publish", "done"}
            /\ op[r] = "change" => pc[r] # "write"

(* A set-up that wrote the row excludes every other one. *)
FirstSetup ==
    \A q, r \in Requests :
        /\ op[q] = "setup" /\ op[r] = "setup"
        /\ pc[q] \in {"publish", "done"} /\ pc[r] \in {"publish", "done"}
        => q = r

(* Credentials are written once; those replaced are never written again.   *)
WrittenOnce ==
    /\ account \notin past /\ dead \subseteq past
    /\ \A r \in Requests :
        r \in past \/ r = account => pc[r] \in {"publish", "done", "lost"}

(* Whoever is about to publish the account wrote the row or was overtaken; *)
(* between writers a copy that is loaded is the row or was published by    *)
(* one overtaken, and a copy that is not yet loaded is about to be the row.*)
AccountCopied ==
    /\ \A r \in Publishing(AccountWrites) : account = r \/ r \in overtaken
    /\ Publishing(AccountWrites) = {} =>
        /\ loaded => cached = account \/ cached \in overtaken
        /\ ~loaded => \A r \in Requests : pc[r] = "fill" => mine[r] = account

AddressCopied ==
    /\ \A r \in Publishing({"configure"}) : address = r \/ r \in overtaken
    /\ Publishing({"configure"}) = {} => tuner = address \/ tuner \in overtaken

(* Nobody is given credentials that were dead when he came, but those of a *)
(* writer who was overtaken.                                               *)
DeadStayOut ==
    /\ \A r \in Requests : known[r] \subseteq dead
    /\ ~loaded => \A r \in Requests : pc[r] = "fill" => mine[r] \notin dead
    /\ loaded => cached \notin dead \ overtaken
    /\ \A r \in Requests :
        /\ pc[r] = "have" => mine[r] \notin known[r] \ overtaken
        /\ pc[r] = "entered" => key[r] \notin known[r] \ overtaken

SettingsInv ==
    /\ SettingsTypeOK /\ NoAccountYet /\ FirstSetup /\ WrittenOnce
    /\ AccountCopied /\ AddressCopied /\ DeadStayOut

LEMMA SettingsInitial == Init => SettingsInv
<1> USE SettingsAssumption DEF Init
<1>1. ASSUME Init PROVE SettingsTypeOK
  <2>1. /\ pc \in [Requests -> Steps] /\ op \in [Requests -> Operations]
        /\ known \in [Requests -> SUBSET Requests]
    BY <1>1 DEF Steps, Operations
  <2>2. /\ key \in [Requests -> Credentials]
        /\ mine \in [Requests -> Credentials]
        /\ crashes \in 0 .. MaxCrashes
    BY <1>1 DEF Credentials
  <2> QED
    BY <1>1, <2>1, <2>2 DEF SettingsTypeOK, Credentials
<1>2. Init => NoAccountYet /\ FirstSetup /\ WrittenOnce
  BY DEF NoAccountYet, FirstSetup, WrittenOnce
<1>3. Init => AccountCopied /\ AddressCopied /\ DeadStayOut
  BY DEF AccountCopied, AddressCopied, DeadStayOut, Publishing
<1> QED
  BY <1>1, <1>2, <1>3 DEF SettingsInv

-----------------------------------------------------------------------------
(* Induction *)

LEMMA TypesKept ==
    SettingsTypeOK /\ NoAccountYet /\ [Next]_vars => SettingsTypeOK'
<1> SUFFICES ASSUME SettingsTypeOK /\ NoAccountYet, [Next]_vars
             PROVE  SettingsTypeOK'
  OBVIOUS
<1> USE SettingsAssumption
    DEF SettingsTypeOK, Credentials, NoAccountYet, Goto, AccountWrites,
        Steps, Operations, rows, copies, request, history
<1>1. CASE Restart
  <2>1. pc' \in [Requests -> Steps] /\ mine' \in [Requests -> Credentials]
    BY <1>1 DEF Restart
  <2>2. crashes' \in 0 .. MaxCrashes
    BY <1>1 DEF Restart
  <2> QED
    BY <1>1, <2>1, <2>2 DEF Restart
<1>2. ASSUME NEW r \in Requests, Arrive(r)
      PROVE  SettingsTypeOK'
  BY <1>2 DEF Arrive
<1>3. ASSUME NEW r \in Requests, Ask(r) \/ ReadRow(r) \/ Fill(r)
      PROVE  SettingsTypeOK'
  <2>1. CASE Ask(r)
    BY <1>3, <2>1 DEF Ask
  <2>2. CASE ReadRow(r)
    BY <1>3, <2>2 DEF ReadRow
  <2>3. CASE Fill(r)
    <3>1. cached' \in Credentials /\ loaded' = TRUE
      BY <2>3 DEF Fill
    <3> QED
      BY <2>3, <3>1 DEF Fill
  <2> QED
    BY <1>3, <2>1, <2>2, <2>3
<1>4. ASSUME NEW r \in Requests, Proceed(r) \/ Refuse(r) \/ Enter(r)
      PROVE  SettingsTypeOK'
  <2>1. CASE Proceed(r)
    BY <2>1 DEF Proceed, Forgets
  <2>2. CASE Refuse(r)
    BY <2>2 DEF Refuse, Forgets
  <2>3. CASE Enter(r)
    <3>1. pc' \in [Requests -> Steps]
      BY <2>3 DEF Enter
    <3> QED
      BY <2>3, <3>1 DEF Enter, Forgets
  <2> QED
    BY <1>4, <2>1, <2>2, <2>3
<1>5. ASSUME NEW r \in Requests, Create(r)
      PROVE  SettingsTypeOK'
  BY <1>5 DEF Create, Overtakes, Publishing
<1>6. ASSUME NEW r \in Requests, Update(r)
      PROVE  SettingsTypeOK'
  BY <1>6 DEF Update, Overtakes, Publishing
<1>7. ASSUME NEW r \in Requests, Save(r) \/ WriteFails(r)
      PROVE  SettingsTypeOK'
  <2>1. CASE Save(r)
    <3>1. overtaken' \subseteq Requests
      BY <2>1 DEF Save, Overtakes, Publishing
    <3> QED
      BY <2>1, <3>1 DEF Save
  <2>2. CASE WriteFails(r)
    BY <2>2 DEF WriteFails
  <2> QED
    BY <1>7, <2>1, <2>2
<1>8. ASSUME NEW r \in Requests, PublishAccount(r)
      PROVE  SettingsTypeOK'
  BY <1>8 DEF PublishAccount
<1>9. ASSUME NEW r \in Requests, PublishAddress(r)
      PROVE  SettingsTypeOK'
  BY <1>9 DEF PublishAddress
<1>10. CASE UNCHANGED vars
  BY <1>10 DEF vars
<1> QED
  BY <1>1, <1>2, <1>3, <1>4, <1>5, <1>6, <1>7, <1>8, <1>9, <1>10 DEF Next

LEMMA NoAccountKept ==
    SettingsTypeOK /\ NoAccountYet /\ [Next]_vars => NoAccountYet'
<1> SUFFICES ASSUME SettingsTypeOK /\ NoAccountYet, [Next]_vars
             PROVE  NoAccountYet'
  OBVIOUS
<1> USE SettingsAssumption
    DEF SettingsTypeOK, NoAccountYet, Goto, AccountWrites,
        rows, copies, request, history
<1>1. CASE Restart
  BY <1>1 DEF Restart
<1>2. ASSUME NEW r \in Requests, Arrive(r)
      PROVE  NoAccountYet'
  BY <1>2 DEF Arrive
<1>3. ASSUME NEW r \in Requests, Ask(r) \/ ReadRow(r) \/ Fill(r)
      PROVE  NoAccountYet'
  BY <1>3 DEF Ask, ReadRow, Fill
<1>4. ASSUME NEW r \in Requests, Proceed(r) \/ Refuse(r) \/ Enter(r)
      PROVE  NoAccountYet'
  BY <1>4 DEF Proceed, Refuse, Enter, Forgets, Allowed
<1>5. ASSUME NEW r \in Requests, Create(r)
      PROVE  NoAccountYet'
  BY <1>5 DEF Create, Overtakes, Publishing
<1>6. ASSUME NEW r \in Requests, Update(r)
      PROVE  NoAccountYet'
  BY <1>6 DEF Update, Overtakes, Publishing
<1>7. ASSUME NEW r \in Requests, Save(r) \/ WriteFails(r)
      PROVE  NoAccountYet'
  BY <1>7 DEF Save, WriteFails, Overtakes, Publishing
<1>8. ASSUME NEW r \in Requests, PublishAccount(r)
      PROVE  NoAccountYet'
  BY <1>8 DEF PublishAccount
<1>9. ASSUME NEW r \in Requests, PublishAddress(r)
      PROVE  NoAccountYet'
  BY <1>9 DEF PublishAddress
<1>10. CASE UNCHANGED vars
  BY <1>10 DEF vars
<1> QED
  BY <1>1, <1>2, <1>3, <1>4, <1>5, <1>6, <1>7, <1>8, <1>9, <1>10 DEF Next

LEMMA FirstSetupKept ==
    SettingsTypeOK /\ NoAccountYet /\ FirstSetup /\ [Next]_vars => FirstSetup'
<1> SUFFICES ASSUME SettingsTypeOK /\ NoAccountYet /\ FirstSetup, [Next]_vars
             PROVE  FirstSetup'
  OBVIOUS
<1> USE SettingsAssumption
    DEF SettingsTypeOK, NoAccountYet, FirstSetup, Goto, AccountWrites,
        rows, copies, request, history
<1>1. CASE Restart
  BY <1>1 DEF Restart
<1>2. ASSUME NEW r \in Requests, Arrive(r)
      PROVE  FirstSetup'
  BY <1>2 DEF Arrive
<1>3. ASSUME NEW r \in Requests, Ask(r) \/ ReadRow(r) \/ Fill(r)
      PROVE  FirstSetup'
  BY <1>3 DEF Ask, ReadRow, Fill
<1>4. ASSUME NEW r \in Requests, Proceed(r) \/ Refuse(r) \/ Enter(r)
      PROVE  FirstSetup'
  BY <1>4 DEF Proceed, Refuse, Enter, Forgets, Allowed
<1>5. ASSUME NEW r \in Requests, Create(r)
      PROVE  FirstSetup'
  BY <1>5 DEF Create, Overtakes, Publishing
<1>6. ASSUME NEW r \in Requests, Update(r)
      PROVE  FirstSetup'
  BY <1>6 DEF Update, Overtakes, Publishing
<1>7. ASSUME NEW r \in Requests, Save(r) \/ WriteFails(r)
      PROVE  FirstSetup'
  BY <1>7 DEF Save, WriteFails, Overtakes, Publishing
<1>8. ASSUME NEW r \in Requests, PublishAccount(r)
      PROVE  FirstSetup'
  BY <1>8 DEF PublishAccount
<1>9. ASSUME NEW r \in Requests, PublishAddress(r)
      PROVE  FirstSetup'
  BY <1>9 DEF PublishAddress
<1>10. CASE UNCHANGED vars
  BY <1>10 DEF vars
<1> QED
  BY <1>1, <1>2, <1>3, <1>4, <1>5, <1>6, <1>7, <1>8, <1>9, <1>10 DEF Next

LEMMA WrittenOnceKept ==
    SettingsTypeOK /\ WrittenOnce /\ [Next]_vars => WrittenOnce'
<1> SUFFICES ASSUME SettingsTypeOK /\ WrittenOnce, [Next]_vars
             PROVE  WrittenOnce'
  OBVIOUS
<1> USE SettingsAssumption
    DEF SettingsTypeOK, Credentials, WrittenOnce, Goto, AccountWrites,
        rows, copies, request, history
<1>1. CASE Restart
  BY <1>1 DEF Restart
<1>2. ASSUME NEW r \in Requests, Arrive(r)
      PROVE  WrittenOnce'
  BY <1>2 DEF Arrive
<1>3. ASSUME NEW r \in Requests, Ask(r) \/ ReadRow(r) \/ Fill(r)
      PROVE  WrittenOnce'
  BY <1>3 DEF Ask, ReadRow, Fill
<1>4. ASSUME NEW r \in Requests, Proceed(r) \/ Refuse(r) \/ Enter(r)
      PROVE  WrittenOnce'
  BY <1>4 DEF Proceed, Refuse, Enter, Forgets, Allowed
<1>5. ASSUME NEW r \in Requests, Create(r)
      PROVE  WrittenOnce'
  BY <1>5 DEF Create, Overtakes, Publishing
<1>6. ASSUME NEW r \in Requests, Update(r)
      PROVE  WrittenOnce'
  BY <1>6 DEF Update, Overtakes, Publishing
<1>7. ASSUME NEW r \in Requests, Save(r) \/ WriteFails(r)
      PROVE  WrittenOnce'
  BY <1>7 DEF Save, WriteFails, Overtakes, Publishing
<1>8. ASSUME NEW r \in Requests, PublishAccount(r)
      PROVE  WrittenOnce'
  BY <1>8 DEF PublishAccount
<1>9. ASSUME NEW r \in Requests, PublishAddress(r)
      PROVE  WrittenOnce'
  BY <1>9 DEF PublishAddress
<1>10. CASE UNCHANGED vars
  BY <1>10 DEF vars
<1> QED
  BY <1>1, <1>2, <1>3, <1>4, <1>5, <1>6, <1>7, <1>8, <1>9, <1>10 DEF Next

LEMMA AccountCopiedKept ==
    SettingsTypeOK /\ AccountCopied /\ [Next]_vars => AccountCopied'
<1> SUFFICES ASSUME SettingsTypeOK /\ AccountCopied, [Next]_vars
             PROVE  AccountCopied'
  OBVIOUS
<1> USE SettingsAssumption
    DEF SettingsTypeOK, AccountCopied, Publishing, Goto, AccountWrites,
        rows, copies, request, history
<1>1. CASE Restart
  BY <1>1 DEF Restart
<1>2. ASSUME NEW r \in Requests, Arrive(r)
      PROVE  AccountCopied'
  BY <1>2 DEF Arrive
<1>3. ASSUME NEW r \in Requests, Ask(r) \/ ReadRow(r) \/ Fill(r)
      PROVE  AccountCopied'
  BY <1>3 DEF Ask, ReadRow, Fill
<1>4. ASSUME NEW r \in Requests, Proceed(r) \/ Refuse(r) \/ Enter(r)
      PROVE  AccountCopied'
  BY <1>4 DEF Proceed, Refuse, Enter, Forgets, Allowed
<1>5. ASSUME NEW r \in Requests, Create(r)
      PROVE  AccountCopied'
  BY <1>5 DEF Create, Overtakes, Publishing
<1>6. ASSUME NEW r \in Requests, Update(r)
      PROVE  AccountCopied'
  BY <1>6 DEF Update, Overtakes, Publishing
<1>7. ASSUME NEW r \in Requests, Save(r) \/ WriteFails(r)
      PROVE  AccountCopied'
  BY <1>7 DEF Save, WriteFails, Overtakes, Publishing
<1>8. ASSUME NEW r \in Requests, PublishAccount(r)
      PROVE  AccountCopied'
  BY <1>8 DEF PublishAccount
<1>9. ASSUME NEW r \in Requests, PublishAddress(r)
      PROVE  AccountCopied'
  BY <1>9 DEF PublishAddress
<1>10. CASE UNCHANGED vars
  BY <1>10 DEF vars
<1> QED
  BY <1>1, <1>2, <1>3, <1>4, <1>5, <1>6, <1>7, <1>8, <1>9, <1>10 DEF Next

LEMMA AddressCopiedKept ==
    SettingsTypeOK /\ AddressCopied /\ [Next]_vars => AddressCopied'
<1> SUFFICES ASSUME SettingsTypeOK /\ AddressCopied, [Next]_vars
             PROVE  AddressCopied'
  OBVIOUS
<1> USE SettingsAssumption
    DEF SettingsTypeOK, AddressCopied, Publishing, Goto, AccountWrites,
        rows, copies, request, history
<1>1. CASE Restart
  BY <1>1 DEF Restart
<1>2. ASSUME NEW r \in Requests, Arrive(r)
      PROVE  AddressCopied'
  BY <1>2 DEF Arrive
<1>3. ASSUME NEW r \in Requests, Ask(r) \/ ReadRow(r) \/ Fill(r)
      PROVE  AddressCopied'
  BY <1>3 DEF Ask, ReadRow, Fill
<1>4. ASSUME NEW r \in Requests, Proceed(r) \/ Refuse(r) \/ Enter(r)
      PROVE  AddressCopied'
  BY <1>4 DEF Proceed, Refuse, Enter, Forgets, Allowed
<1>5. ASSUME NEW r \in Requests, Create(r)
      PROVE  AddressCopied'
  BY <1>5 DEF Create, Overtakes, Publishing
<1>6. ASSUME NEW r \in Requests, Update(r)
      PROVE  AddressCopied'
  BY <1>6 DEF Update, Overtakes, Publishing
<1>7. ASSUME NEW r \in Requests, Save(r) \/ WriteFails(r)
      PROVE  AddressCopied'
  BY <1>7 DEF Save, WriteFails, Overtakes, Publishing
<1>8. ASSUME NEW r \in Requests, PublishAccount(r)
      PROVE  AddressCopied'
  BY <1>8 DEF PublishAccount
<1>9. ASSUME NEW r \in Requests, PublishAddress(r)
      PROVE  AddressCopied'
  BY <1>9 DEF PublishAddress
<1>10. CASE UNCHANGED vars
  BY <1>10 DEF vars
<1> QED
  BY <1>1, <1>2, <1>3, <1>4, <1>5, <1>6, <1>7, <1>8, <1>9, <1>10 DEF Next

LEMMA DeadStayOutKept ==
    SettingsTypeOK /\ WrittenOnce /\ AccountCopied /\ DeadStayOut /\ [Next]_vars
        => DeadStayOut'
<1> SUFFICES ASSUME SettingsTypeOK /\ WrittenOnce /\ AccountCopied /\ DeadStayOut, [Next]_vars
             PROVE  DeadStayOut'
  OBVIOUS
<1> USE SettingsAssumption
    DEF SettingsTypeOK, WrittenOnce, AccountCopied, DeadStayOut, Goto,
        AccountWrites, rows, copies, request, history
<1>1. CASE Restart
  BY <1>1 DEF Restart
<1>2. ASSUME NEW r \in Requests, Arrive(r)
      PROVE  DeadStayOut'
  BY <1>2 DEF Arrive
<1>3. ASSUME NEW r \in Requests, Ask(r) \/ ReadRow(r) \/ Fill(r)
      PROVE  DeadStayOut'
  BY <1>3 DEF Ask, ReadRow, Fill
<1>4. ASSUME NEW r \in Requests, Proceed(r) \/ Refuse(r) \/ Enter(r)
      PROVE  DeadStayOut'
  BY <1>4 DEF Proceed, Refuse, Enter, Forgets, Allowed
<1>5. ASSUME NEW r \in Requests, Create(r)
      PROVE  DeadStayOut'
  BY <1>5 DEF Create, Overtakes, Publishing
<1>6. ASSUME NEW r \in Requests, Update(r)
      PROVE  DeadStayOut'
  BY <1>6 DEF Update, Overtakes, Publishing
<1>7. ASSUME NEW r \in Requests, Save(r) \/ WriteFails(r)
      PROVE  DeadStayOut'
  BY <1>7 DEF Save, WriteFails, Overtakes, Publishing
<1>8. ASSUME NEW r \in Requests, PublishAccount(r)
      PROVE  DeadStayOut'
  <2>1. account = r \/ r \in overtaken
    BY <1>8 DEF PublishAccount, Publishing
  <2>2. r \notin dead' \ overtaken'
    BY <1>8, <2>1 DEF PublishAccount
  <2> QED
    BY <1>8, <2>2 DEF PublishAccount
<1>9. ASSUME NEW r \in Requests, PublishAddress(r)
      PROVE  DeadStayOut'
  BY <1>9 DEF PublishAddress
<1>10. CASE UNCHANGED vars
  BY <1>10 DEF vars
<1> QED
  BY <1>1, <1>2, <1>3, <1>4, <1>5, <1>6, <1>7, <1>8, <1>9, <1>10 DEF Next

LEMMA SettingsStep == SettingsInv /\ [Next]_vars => SettingsInv'
  BY TypesKept, NoAccountKept, FirstSetupKept, WrittenOnceKept,
     AccountCopiedKept, AddressCopiedKept, DeadStayOutKept
  DEF SettingsInv

THEOREM SettingsInvariant == Spec => []SettingsInv
  BY SettingsInitial, SettingsStep, PTL DEF Spec

-----------------------------------------------------------------------------
(* What follows *)

(* Every variable keeps its type; a cache that is not loaded is empty. *)
THEOREM SettingsTypeCorrect == Spec => []SettingsTypeOK
<1>1. SettingsInv => SettingsTypeOK
  BY DEF SettingsInv
<1> QED
  BY <1>1, SettingsInvariant, PTL

(* Whoever fills the cache, and whatever restarts, a copy says what its    *)
(* row says between writers, unless one that was overtaken wrote it last.  *)
THEOREM CopiesAlwaysFollow == Spec => []CopiesFollowRows
<1>1. SettingsInv => CopiesFollowRows
  BY DEF SettingsInv, AccountCopied, AddressCopied, CopiesFollowRows
<1> QED
  BY <1>1, SettingsInvariant, PTL

(* One first-run set-up succeeds, however many meet. *)
THEOREM OnlyOneSetup == Spec => []OneSetup
<1>1. SettingsInv => OneSetup
  BY DEF SettingsInv, FirstSetup, OneSetup
<1> QED
  BY <1>1, SettingsInvariant, PTL

(* Credentials replaced by a change that has returned let nobody in who    *)
(* comes later, but those of a change that was overtaken itself.           *)
THEOREM OldCredentialsStayOut == Spec => []OldCredentialsRefused
<1>1. SettingsInv => OldCredentialsRefused
  BY DEF SettingsInv, DeadStayOut, OldCredentialsRefused
<1> QED
  BY <1>1, SettingsInvariant, PTL

=============================================================================
