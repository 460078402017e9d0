------------------------------- MODULE Browser -------------------------------
(***************************************************************************)
(* The tabs of one browser: the vault key that each of them holds, the     *)
(* principal and the revision it is bound to, the cookies they share, and  *)
(* the messages by which they tell each other that the session changed.    *)
(*                                                                         *)
(* Every await is a point where the other things of the browser happen, so *)
(* an operation is one action from await to await.  What comparing epochs  *)
(* finds out is done when the epoch passes: an operation of an earlier     *)
(* epoch can only fail and is gone.  A tab locks at any moment: by its     *)
(* button, by the idle and the hidden deadline.                            *)
(*                                                                         *)
(* A key is named by the owner whose material it was unwrapped from; it is *)
(* Unsaved in the tab that makes it until the setup is finalized.  The     *)
(* server is as much of Vault.tla as a browser can tell.                   *)
(***************************************************************************)
EXTENDS Integers, FiniteSets

CONSTANTS
    Tab,            \* the tabs
    Person,         \* the owners who use this browser
    None,           \* null
    Unsaved,        \* a key that is not saved yet
    MaxRevision,    \* bound: changes of the key material of a vault
    MaxInbox,       \* bound: messages a tab has not received
    MaxBusy         \* bound: operations of pages and shells under way

ASSUME ConstantsAssumption ==
    /\ None \notin Person /\ Unsaved \notin Person /\ Unsaved # None
    /\ MaxRevision \in Nat \ {0} /\ MaxInbox \in Nat \ {0} /\ MaxBusy \in Nat \ {0}

VARIABLES
    cookie,     \* whose session the cookies are
    server,     \* the revision of the material of each vault, 0: none
    tab,        \* crypto-session.ts: [key, who, revision]
    page,       \* the operation that a page of the tab has under way
    shell,      \* what shell.tsx has under way
    auth,       \* a login or a logout under way in the tab
    inbox,      \* the messages on the channel that a tab has not received
    misled      \* the cookies changed hands and no tab was told

vars == <<cookie, server, tab, page, shell, auth, inbox, misled>>

Idle == [op |-> "idle"]
Locked == [key |-> None, who |-> None, revision |-> 0]

\* Each owner has a vault, set up or not, and nobody is signed in.
Init ==
    /\ cookie = None
    /\ server \in [Person -> {0, 1}]
    /\ tab = [t \in Tab |-> Locked]
    /\ page = [t \in Tab |-> Idle]
    /\ shell = [t \in Tab |-> Idle]
    /\ auth = [t \in Tab |-> Idle]
    /\ inbox = [t \in Tab |-> 0]
    /\ misled = FALSE

-----------------------------------------------------------------------------
(* crypto-session.ts                                                       *)

\* Mutant: the epoch stays what it was.
AfterLockAsBefore(job) == job

\* What an operation of a page finds in another epoch is thrown away.
AfterLock(job) == Idle

\* The shell goes on without the material that comes in another epoch.
Late(job) == IF job = Idle THEN Idle ELSE [job EXCEPT !.current = FALSE]

\* Mutant: the key stays where it is.
WithoutKeyNot(held) == held

WithoutKey(held) == [held EXCEPT !.key = None]

\* lockVault.
Lock(t) ==
    /\ tab' = [tab EXCEPT ![t] = WithoutKey(@)]
    /\ page' = [page EXCEPT ![t] = AfterLock(@)]
    /\ shell' = [shell EXCEPT ![t] = Late(@)]

\* Mutant: the other tabs are not told.
TellNobody(t) == UNCHANGED inbox

Tell(t) ==
    /\ \A u \in Tab \ {t} : inbox[u] < MaxInbox
    /\ inbox' = [u \in Tab |-> IF u = t THEN inbox[u] ELSE inbox[u] + 1]

\* On a change of the session a tab locks, and its shell asks anew.
Restart(t) ==
    /\ tab' = [tab EXCEPT ![t] = WithoutKey(@)]
    /\ page' = [page EXCEPT ![t] = AfterLock(@)]
    /\ shell' = [shell EXCEPT ![t] = Idle]

\* sessionChanged: the tab itself and, by the channel, the others.
SessionChanged(t) == Restart(t) /\ Tell(t)

LockTab(t) ==
    /\ tab[t].key # None
    /\ Lock(t)
    /\ UNCHANGED <<cookie, server, auth, inbox, misled>>

Receive(t) ==
    /\ inbox[t] > 0
    /\ inbox' = [inbox EXCEPT ![t] = @ - 1]
    /\ Restart(t)
    /\ UNCHANGED <<cookie, server, auth, misled>>

-----------------------------------------------------------------------------
(* Login and logout: the cookies come with the head of the answer, the     *)
(* other tabs are told before the request and after its answer.  Bound:    *)
(* one at a time in the browser.                                           *)

BeginAuth(t, who) ==
    /\ \A u \in Tab : auth[u] = Idle
    /\ auth' = [auth EXCEPT ![t] = [op |-> "sent", who |-> who]]
    /\ SessionChanged(t)
    /\ UNCHANGED <<cookie, server, misled>>

CommitCookie(t) ==
    /\ auth[t].op = "sent"
    /\ cookie' = auth[t].who
    /\ auth' = [auth EXCEPT ![t].op = "stored"]
    /\ UNCHANGED <<server, tab, page, shell, inbox, misled>>

EndAuth(t) ==
    /\ auth[t].op = "stored"
    /\ auth' = [auth EXCEPT ![t] = Idle]
    /\ SessionChanged(t)
    /\ misled' = FALSE
    /\ UNCHANGED <<cookie, server>>

\* The request fails, before the cookies or between them and the end of the
\* answer.  Logout tells the tabs all the same, login does not.
FailAuth(t) ==
    /\ auth[t] # Idle
    /\ auth' = [auth EXCEPT ![t] = Idle]
    /\ IF auth[t].who = None
       THEN SessionChanged(t) /\ UNCHANGED misled
       ELSE /\ misled' = (misled \/ auth[t].op = "stored")
            /\ UNCHANGED <<tab, page, shell, inbox>>
    /\ UNCHANGED <<cookie, server>>

-----------------------------------------------------------------------------
(* Pages                                                                   *)

Room ==
    Cardinality({t \in Tab : page[t] # Idle}) + Cardinality({t \in Tab : shell[t] # Idle})
        < MaxBusy

Begin(t, job) == page[t] = Idle /\ Room /\ page' = [page EXCEPT ![t] = job]
Await(t, job) == page' = [page EXCEPT ![t] = job]
End(t) == page' = [page EXCEPT ![t] = Idle]
At(t, op, at) == page[t] # Idle /\ page[t].op = op /\ page[t].at = at

\* A page that makes a key locks the tab when it is left.
EndLocked(t) ==
    /\ End(t)
    /\ tab' = [tab EXCEPT ![t].key = None]
    /\ shell' = [shell EXCEPT ![t] = Late(@)]

\* An await comes back with a failure, or the page is left.
GiveUp(t) ==
    /\ page[t] # Idle
    /\ IF page[t].op = "setup" THEN EndLocked(t) ELSE End(t) /\ UNCHANGED <<tab, shell>>
    /\ UNCHANGED <<cookie, server, auth, inbox, misled>>

\* A request is answered 401 and the refresh for it fails.
Refused(t) ==
    /\ page[t] # Idle \/ shell[t] # Idle
    /\ SessionChanged(t)
    /\ UNCHANGED <<cookie, server, auth, misled>>

\* unlock of vault/page.tsx: the material, then whose it is, then the key.
BeginUnlock(t) ==
    /\ cookie # None
    /\ Begin(t, [op |-> "unlock", at |-> "me", of |-> cookie,
                 revision |-> server[cookie]])
    /\ UNCHANGED <<cookie, server, tab, shell, auth, inbox, misled>>

\* bindVault: another principal or another revision locks first.
Bound(t, who, revision) == tab[t].who = who /\ tab[t].revision = revision

Rebind(t, who, revision) ==
    [tab EXCEPT ![t] = [key |-> None, who |-> who, revision |-> revision]]

FetchMe(t) ==
    /\ At(t, "unlock", "me")
    /\ cookie # None
    /\ IF Bound(t, cookie, page[t].revision) THEN UNCHANGED <<tab, shell>>
       ELSE /\ tab' = Rebind(t, cookie, page[t].revision)
            /\ shell' = [shell EXCEPT ![t] = Late(@)]
    /\ IF page[t].revision = 0 THEN End(t)
       ELSE Await(t, [op |-> "unlock", at |-> "derive", of |-> page[t].of])
    /\ UNCHANGED <<cookie, server, auth, inbox, misled>>

DeriveKey(t) ==
    /\ At(t, "unlock", "derive")
    /\ tab' = [tab EXCEPT ![t].key = page[t].of]
    /\ End(t)
    /\ UNCHANGED <<cookie, server, shell, auth, inbox, misled>>

\* setup/page.tsx: for an owner without material, a key of the tab's own,
\* adopted before the draft is posted for who is signed in then.
BeginSetup(t) ==
    /\ cookie # None
    /\ server[cookie] = 0
    /\ Begin(t, [op |-> "setup", at |-> "derive"])
    /\ UNCHANGED <<cookie, server, tab, shell, auth, inbox, misled>>

MakeKey(t) ==
    /\ At(t, "setup", "derive")
    /\ tab' = [tab EXCEPT ![t].key = Unsaved]
    /\ Await(t, [op |-> "setup", at |-> "shares", to |-> cookie])
    /\ UNCHANGED <<cookie, server, shell, auth, inbox, misled>>

\* The server takes the end of a setup while the vault has no material; that
\* the draft is the last one is left to Vault.tla.
FinalizeSetup(t) ==
    /\ At(t, "setup", "shares")
    /\ cookie # None /\ cookie = page[t].to
    /\ server[cookie] = 0
    /\ server' = [server EXCEPT ![cookie] = 1]
    /\ EndLocked(t)
    /\ UNCHANGED <<cookie, auth, inbox, misled>>

\* onCreate and onRewrap: what is encrypted or wrapped with the key, and the
\* revision of the same moment.
BeginUse(t) ==
    /\ tab[t].key # None
    /\ Begin(t, [op |-> "use", at |-> "encrypt", of |-> tab[t].key,
                 revision |-> tab[t].revision])
    /\ UNCHANGED <<cookie, server, tab, shell, auth, inbox, misled>>

\* What the server takes of tab t: a message, which changes nothing here, ...
Submits(t) ==
    /\ At(t, "use", "encrypt")
    /\ cookie # None
    /\ server[cookie] = page[t].revision /\ page[t].revision > 0

\* ... or a new wrapping.  Its answer may be lost, and then nobody is told.
PutMaterial(t, answered) ==
    /\ Submits(t)
    /\ server[cookie] < MaxRevision
    /\ server' = [server EXCEPT ![cookie] = @ + 1]
    /\ IF answered
       THEN /\ tab' = [tab EXCEPT ![t].key = None]
            /\ shell' = [shell EXCEPT ![t] = Idle]
            /\ Tell(t)
       ELSE UNCHANGED <<tab, shell, inbox>>
    /\ End(t)
    /\ UNCHANGED <<cookie, auth, misled>>

-----------------------------------------------------------------------------
(* shell.tsx: on every navigation and after every change of the session it *)
(* asks who is signed in, then for the material, and binds the tab.        *)

BeginShell(t) ==
    /\ shell[t] = Idle /\ Room
    /\ cookie # None
    /\ shell' = [shell EXCEPT ![t] = [op |-> "material", who |-> cookie, current |-> TRUE]]
    /\ UNCHANGED <<cookie, server, tab, page, auth, inbox, misled>>

\* A material that did not come, or came in another epoch, counts as revision 0.
ShellBind(t) ==
    /\ shell[t] # Idle
    /\ \E revision \in {0} \cup
            {server[o] : o \in IF shell[t].current THEN {cookie} \ {None} ELSE {}} :
        IF Bound(t, shell[t].who, revision) THEN UNCHANGED <<tab, page>>
        ELSE /\ tab' = Rebind(t, shell[t].who, revision)
             /\ page' = [page EXCEPT ![t] = AfterLock(@)]
    /\ shell' = [shell EXCEPT ![t] = Idle]
    /\ UNCHANGED <<cookie, server, auth, inbox, misled>>

ShellGivesUp(t) ==
    /\ shell[t] # Idle
    /\ shell' = [shell EXCEPT ![t] = Idle]
    /\ UNCHANGED <<cookie, server, tab, page, auth, inbox, misled>>

-----------------------------------------------------------------------------

Authenticate(t) ==
    \/ \E who \in Person \cup {None} : BeginAuth(t, who)
    \/ CommitCookie(t)
    \/ EndAuth(t)
    \/ FailAuth(t)

UsePage(t) ==
    \/ BeginUnlock(t) \/ FetchMe(t) \/ DeriveKey(t)
    \/ BeginSetup(t) \/ MakeKey(t) \/ FinalizeSetup(t)
    \/ BeginUse(t) \/ \E answered \in BOOLEAN : PutMaterial(t, answered)
    \/ GiveUp(t)
    \/ Refused(t)

UseShell(t) == BeginShell(t) \/ ShellBind(t) \/ ShellGivesUp(t)

Next ==
    \E t \in Tab :
        \/ LockTab(t)
        \/ Receive(t)
        \/ Authenticate(t)
        \/ UsePage(t)
        \/ UseShell(t)

Spec == Init /\ [][Next]_vars

-----------------------------------------------------------------------------
(* Properties                                                              *)

TabRow == {row \in [key : Person \cup {None, Unsaved}, who : Person \cup {None},
                    revision : 0 .. MaxRevision] :
            row.key \in Person => row.revision > 0 /\ row.who # None}
PageJob == {Idle}
    \cup [op : {"unlock"}, at : {"me"}, of : Person, revision : 0 .. MaxRevision]
    \cup [op : {"unlock"}, at : {"derive"}, of : Person]
    \cup [op : {"setup"}, at : {"derive"}]
    \cup [op : {"setup"}, at : {"shares"}, to : Person \cup {None}]
    \cup [op : {"use"}, at : {"encrypt"}, of : Person \cup {Unsaved},
          revision : 0 .. MaxRevision]
ShellJob == {Idle} \cup [op : {"material"}, who : Person, current : BOOLEAN]
AuthJob == {Idle} \cup [op : {"sent", "stored"}, who : Person \cup {None}]

\* Every variable of every tab has a value that the code gives it, and a key
\* that was unwrapped is held in a tab that is bound to a revision with material
\* (vault/page.tsx:123-146).
TypeOK ==
    /\ cookie \in Person \cup {None} /\ misled \in BOOLEAN
    /\ server \in [Person -> 0 .. MaxRevision]
    /\ tab \in [Tab -> TabRow]
    /\ page \in [Tab -> PageJob] /\ shell \in [Tab -> ShellJob]
    /\ auth \in [Tab -> AuthJob]
    /\ inbox \in [Tab -> 0 .. MaxInbox]

\* No login or logout is under way and all tabs know of the last.
Settled ==
    /\ ~misled
    /\ \A t \in Tab : auth[t] = Idle /\ inbox[t] = 0

\* Once the tabs know of a change of the session, a tab that is unlocked holds
\* the key of who is signed in, however late the unlock or the setup of an
\* earlier session comes back: none shows or encrypts with the key of who was
\* there before (transport.ts:19-34, crypto-session.ts:67-75,118-142).
KeyIsOfTheSession ==
    Settled => \A t \in Tab :
        \/ tab[t].key \in {None, cookie}
        \/ tab[t].key = Unsaved /\ page[t].op = "setup"

\* Then what the server takes is encrypted or wrapped with the vault's own key:
\* a delayed save or change of the passphrase puts nothing of one session into
\* the vault of another, and no setup that was not finished counts as a key
\* (settings/page.tsx:41-54, vault/page.tsx:154-170).
TakesTheVaultsKey ==
    Settled => \A t \in Tab : Submits(t) => page[t].of = cookie

\* A key that is not saved ends with its setup; one is derived for a binding.
UnsavedInSetup == \A t \in Tab : tab[t].key = Unsaved => page[t].op = "setup"
DerivesBound ==
    \A t \in Tab : At(t, "unlock", "derive") => tab[t].revision > 0 /\ tab[t].who # None

\* A tab that has read every message, with no cookies that were stored and not
\* told of, works for who is signed in: the key it holds, the unlock or the use
\* of a key it has under way.
TabsAreCurrent ==
    ~misled /\ (\A t \in Tab : auth[t].op # "stored") =>
        \A t \in Tab : inbox[t] = 0 =>
            /\ tab[t].key \in {None, Unsaved, cookie}
            /\ page[t].op \in {"unlock", "use"} => page[t].of = cookie

\* The inductive invariant behind the three properties.
BrowserInvariant == TypeOK /\ UnsavedInSetup /\ DerivesBound /\ TabsAreCurrent

=============================================================================
