------------------------------- MODULE Settings -------------------------------
(***************************************************************************)
(* The settings page: the business name and its audit trail, and the       *)
(* webhook secret, which the page regenerates and a migration script       *)
(* encrypts in place.  Several tabs and several runs of the script work on *)
(* one Merchant row at once.                                               *)
(*                                                                         *)
(* A tab's form waits for its request, so the place of the request stands  *)
(* for the state of both.  A secret is the number of its generation with   *)
(* the number of times it is encrypted; the audit log is the set of its    *)
(* entries, equal ones counted once.                                       *)
(***************************************************************************)
EXTENDS Naturals, FiniteSets

CONSTANTS
    Tabs,
    ScriptRuns,
    Names,          \* business names, trimmed and no longer than 120
    FirstName,      \* the one registered with
    None,           \* no name
    MaxSecrets,     \* bound: secrets regenerated
    MaxLost         \* bound: statements that reject

ASSUME NamesAssumption == FirstName \in Names /\ None \notin Names

VARIABLES
    merchant,       \* the row: name, secret
    auditLog,
    nameForm,       \* each tab's name form: place, typed name, name read before
    secretButton,   \* each tab's regenerate button: place
    script,         \* each run of the script: place, secret read
    lost,           \* statements that rejected
    gaps            \* history: changes whose audit entry could not be written

settingsVars == <<merchant, auditLog, nameForm, secretButton, script, lost, gaps>>

(* The merchant registered before secrets were encrypted, or since.        *)
SettingsInit ==
    /\ merchant \in [name : {FirstName},
                     secret : {[generation |-> 0, layers |-> n] : n \in {0, 1}}]
    /\ auditLog = {}
    /\ nameForm = [t \in Tabs |-> [at |-> "closed", typed |-> FirstName, before |-> FirstName]]
    /\ secretButton = [t \in Tabs |-> "idle"]
    /\ script = [r \in ScriptRuns |-> [at |-> "start", secret |-> merchant.secret]]
    /\ lost = 0
    /\ gaps = {}

MoveForm(t, from, to) ==
    /\ nameForm[t].at = from
    /\ nameForm' = [nameForm EXCEPT ![t].at = to]

MoveButton(t, from, to) ==
    /\ secretButton[t] = from
    /\ secretButton' = [secretButton EXCEPT ![t] = to]

Lose == lost < MaxLost /\ lost' = lost + 1

----------------------------------------------------------------------------
(* The name: the tab's form, then updateProfileName's three statements.    *)

EditName(t) ==
    /\ MoveForm(t, "closed", "editing")
    /\ UNCHANGED <<merchant, auditLog, secretButton, script, lost, gaps>>

CancelEdit(t) ==
    /\ MoveForm(t, "editing", "closed")
    /\ UNCHANGED <<merchant, auditLog, secretButton, script, lost, gaps>>

(* An empty or too long name is refused before anything is read.           *)
SaveName(t, name) ==
    /\ nameForm[t].at = "editing"
    /\ nameForm' = [nameForm EXCEPT ![t] = [at |-> "read", typed |-> name, before |-> FirstName]]
    /\ UNCHANGED <<merchant, auditLog, secretButton, script, lost, gaps>>

ReadName(t) ==
    /\ nameForm[t].at = "read"
    /\ nameForm' = [nameForm EXCEPT
          ![t].at = IF merchant.name = nameForm[t].typed THEN "answer" ELSE "update",
          ![t].before = merchant.name]
    /\ UNCHANGED <<merchant, auditLog, secretButton, script, lost, gaps>>

(* Whatever the name is by now.                                            *)
UpdateName(t) ==
    /\ MoveForm(t, "update", "audit")
    /\ merchant' = [merchant EXCEPT !.name = nameForm[t].typed]
    /\ UNCHANGED <<auditLog, secretButton, script, lost, gaps>>

AuditEntry(action, from, to) == [action |-> action, from |-> from, to |-> to]

NameEntry_OfTheRow(form) == AuditEntry("profile.updated", form.before, merchant.name)
NameEntry(form) == AuditEntry("profile.updated", form.before, form.typed)

RecordName(t) ==
    /\ MoveForm(t, "audit", "answer")
    /\ auditLog' = auditLog \cup {NameEntry(nameForm[t])}
    /\ UNCHANGED <<merchant, secretButton, script, lost, gaps>>

(* The entry rejects, which recordAuditEvent logs and forgets, or the      *)
(* process dies before it: the change stands.                              *)
NameEntryLost(t) ==
    /\ \E place \in {"answer", "editing"} : MoveForm(t, "audit", place)
    /\ Lose
    /\ gaps' = gaps \cup {nameForm[t].typed}
    /\ UNCHANGED <<merchant, auditLog, secretButton, script>>

NameSaved(t) ==
    /\ MoveForm(t, "answer", "closed")
    /\ UNCHANGED <<merchant, auditLog, secretButton, script, lost, gaps>>

(* A statement rejects or the answer is lost: the form stays open with the *)
(* error, whatever was done.                                               *)
SaveRejected(t) ==
    /\ nameForm[t].at \in {"read", "update", "answer"}
    /\ nameForm' = [nameForm EXCEPT ![t].at = "editing"]
    /\ Lose
    /\ UNCHANGED <<merchant, auditLog, secretButton, script, gaps>>

NameAction(t) ==
    \/ EditName(t) \/ CancelEdit(t) \/ (\E n \in Names : SaveName(t, n))
    \/ ReadName(t) \/ UpdateName(t) \/ RecordName(t) \/ NameEntryLost(t)
    \/ NameSaved(t) \/ SaveRejected(t)

----------------------------------------------------------------------------
(* The secret.                                                             *)

encryptSecret(secret) == [secret EXCEPT !.layers = @ + 1]
isEncrypted(secret) == secret.layers > 0

(* Anything but one layer decrypts to no secret.                           *)
decryptSecret(secret) == IF secret.layers = 1 THEN {secret.generation} ELSE {}

AskToConfirm(t) ==
    /\ secretButton[t] \in {"idle", "error"}
    /\ secretButton' = [secretButton EXCEPT ![t] = "confirming"]
    /\ UNCHANGED <<merchant, auditLog, nameForm, script, lost, gaps>>

Confirm(t) ==
    /\ merchant.secret.generation < MaxSecrets
    /\ MoveButton(t, "confirming", "store")
    /\ UNCHANGED <<merchant, auditLog, nameForm, script, lost, gaps>>

CancelRegenerate(t) ==
    /\ MoveButton(t, "confirming", "idle")
    /\ UNCHANGED <<merchant, auditLog, nameForm, script, lost, gaps>>

RegenerateSecret(t) ==
    /\ MoveButton(t, "store", "audit")
    /\ merchant' = [merchant EXCEPT !.secret =
          encryptSecret([generation |-> merchant.secret.generation + 1, layers |-> 0])]
    /\ UNCHANGED <<auditLog, nameForm, script, lost, gaps>>

RecordRegeneration(t) ==
    /\ MoveButton(t, "audit", "answer")
    /\ auditLog' = auditLog \cup {AuditEntry("webhook_secret.regenerated", None, None)}
    /\ UNCHANGED <<merchant, nameForm, script, lost, gaps>>

RegenerationEntryLost(t) ==
    /\ \E place \in {"answer", "error"} : MoveButton(t, "audit", place)
    /\ Lose
    /\ gaps' = gaps \cup {None}
    /\ UNCHANGED <<merchant, auditLog, nameForm, script>>

Regenerated(t) ==
    /\ MoveButton(t, "answer", "idle")
    /\ UNCHANGED <<merchant, auditLog, nameForm, script, lost, gaps>>

RegenerateRejected(t) ==
    /\ secretButton[t] \in {"store", "answer"}
    /\ secretButton' = [secretButton EXCEPT ![t] = "error"]
    /\ Lose
    /\ UNCHANGED <<merchant, auditLog, nameForm, script, gaps>>

SecretAction(t) ==
    \/ AskToConfirm(t) \/ Confirm(t) \/ CancelRegenerate(t)
    \/ RegenerateSecret(t) \/ RecordRegeneration(t) \/ RegenerationEntryLost(t)
    \/ Regenerated(t) \/ RegenerateRejected(t)

----------------------------------------------------------------------------
(* scripts/encrypt-webhook-secrets.ts: one read of all merchants, then an  *)
(* update of each whose secret was read in plain text.                     *)

Scan(r) ==
    /\ script[r].at = "start"
    /\ script' = [script EXCEPT ![r] =
          [at |-> IF isEncrypted(merchant.secret) THEN "done" ELSE "update",
           secret |-> merchant.secret]]
    /\ UNCHANGED <<merchant, auditLog, nameForm, secretButton, lost, gaps>>

EncryptInPlace_FreshSecret(r) ==
    /\ script[r].at = "update"
    /\ merchant' = [merchant EXCEPT !.secret = encryptSecret(merchant.secret)]
    /\ script' = [script EXCEPT ![r].at = "done"]
    /\ UNCHANGED <<auditLog, nameForm, secretButton, lost, gaps>>

(* The secret that was read, whatever is stored by now.                    *)
EncryptInPlace(r) ==
    /\ script[r].at = "update"
    /\ merchant' = [merchant EXCEPT !.secret = encryptSecret(script[r].secret)]
    /\ script' = [script EXCEPT ![r].at = "done"]
    /\ UNCHANGED <<auditLog, nameForm, secretButton, lost, gaps>>

ScriptDies(r) ==
    /\ script[r].at = "update"
    /\ script' = [script EXCEPT ![r].at = "dead"]
    /\ Lose
    /\ UNCHANGED <<merchant, auditLog, nameForm, secretButton, gaps>>

ScriptAction(r) == Scan(r) \/ EncryptInPlace(r) \/ ScriptDies(r)

NameNext == \E t \in Tabs : NameAction(t)

SecretNext ==
    \/ \E t \in Tabs : SecretAction(t)
    \/ \E r \in ScriptRuns : ScriptAction(r)

SettingsNext == NameNext \/ SecretNext

SettingsSpec == SettingsInit /\ [][SettingsNext]_settingsVars

----------------------------------------------------------------------------
(* Properties.                                                             *)

(* However saves of several tabs overlap: the name in the row, once        *)
(* changed, is the new name of an audit entry, or will be, or the log      *)
(* refused it; and the name that an entry says was replaced was once the   *)
(* merchant's.                                                             *)
Audited(name) ==
    \/ name \in gaps
    \/ \E e \in auditLog : e.to = name
    \/ \E t \in Tabs : nameForm[t].at = "audit" /\ nameForm[t].typed = name

NameIsAudited ==
    /\ merchant.name # FirstName => Audited(merchant.name)
    /\ \A e \in auditLog : e.from \notin {FirstName, None} => Audited(e.from)

(* Webhooks and the settings page can decrypt the secret once any run of   *)
(* the script has come to its end, and keep being able to: no secret is    *)
(* encrypted twice, although runs of the script overlap one another and    *)
(* regenerations.                                                          *)
SecretStaysReadable ==
    /\ merchant.secret.layers <= 1
    /\ (\E r \in ScriptRuns : script[r].at = "done") => decryptSecret(merchant.secret) # {}

=============================================================================
