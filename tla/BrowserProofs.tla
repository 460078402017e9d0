---------------------------- MODULE BrowserProofs ----------------------------
(***************************************************************************)
(* Theorems about Browser.tla for every set of tabs and owners and every   *)
(* bound: the types, and that a tab which has read its messages holds the  *)
(* key of who is signed in and of nobody else.  BrowserInvariant is proved *)
(* inductive tab by tab: a step of one tab leaves the others as they are,  *)
(* or tells them that the session changed.                                 *)
(***************************************************************************)
EXTENDS Browser, TLAPS

\* All cookies that were stored were told of.
Told == ~misled /\ \A t \in Tab : auth[t].op # "stored"

\* The invariant of one tab, but for the types.
TabInvariant(t) ==
    /\ tab[t].key = Unsaved => page[t].op = "setup"
    /\ At(t, "unlock", "derive") => tab[t].revision > 0 /\ tab[t].who # None
    /\ Told /\ inbox[t] = 0 =>
        /\ tab[t].key \in {None, Unsaved, cookie}
        /\ page[t].op \in {"unlock", "use"} => page[t].of = cookie

LEMMA InvariantOfTabs ==
  UnsavedInSetup /\ DerivesBound /\ TabsAreCurrent <=> \A t \in Tab : TabInvariant(t)
BY DEF UnsavedInSetup, DerivesBound, TabsAreCurrent, TabInvariant, Told

-----------------------------------------------------------------------------
(* Rows                                                                    *)

LEMMA LockedRow ==
  ASSUME NEW row \in TabRow
  PROVE  /\ WithoutKey(row) \in TabRow
         /\ WithoutKey(row).key = None
         /\ WithoutKey(row) = [row EXCEPT !.key = None]
BY ConstantsAssumption DEF WithoutKey, TabRow

LEMMA LateJob ==
  ASSUME NEW job \in ShellJob
  PROVE  Late(job) \in ShellJob
<1>1. CASE job = Idle
  BY <1>1 DEF Late, ShellJob
<1>2. CASE job # Idle
  BY <1>2 DEF Late, ShellJob
<1> QED
  BY <1>1, <1>2

\* A job under way is not idle, and which it is tells what it holds.
LEMMA KindsOfJobs ==
  ASSUME NEW job \in PageJob
  PROVE  /\ job = Idle <=> job.op = "idle"
         /\ job # Idle /\ job.op = "unlock" =>
              \/ job.at = "me" /\ job.of \in Person /\ job.revision \in 0 .. MaxRevision
              \/ job.at = "derive" /\ job.of \in Person
         /\ job # Idle /\ job.op = "setup" => job.at \in {"derive", "shares"}
         /\ job # Idle /\ job.op = "use" =>
              job.of \in Person \cup {Unsaved} /\ job.revision \in 0 .. MaxRevision
<1>1. CASE job \in {Idle}
  BY <1>1 DEF Idle
<1>2. CASE job \in [op : {"unlock"}, at : {"me"}, of : Person, revision : 0 .. MaxRevision]
  BY <1>2 DEF Idle
<1>3. CASE job \in [op : {"unlock"}, at : {"derive"}, of : Person]
  BY <1>3 DEF Idle
<1>4. CASE job \in [op : {"setup"}, at : {"derive"}]
  BY <1>4 DEF Idle
<1>5. CASE job \in [op : {"setup"}, at : {"shares"}, to : Person \cup {None}]
  BY <1>5 DEF Idle
<1>6. CASE job \in [op : {"use"}, at : {"encrypt"}, of : Person \cup {Unsaved},
                    revision : 0 .. MaxRevision]
  BY <1>6 DEF Idle
<1> QED
  BY <1>1, <1>2, <1>3, <1>4, <1>5, <1>6 DEF PageJob

LEMMA KindsOfAuth ==
  ASSUME NEW job \in AuthJob
  PROVE  /\ job = Idle <=> job.op = "idle"
         /\ job # Idle => job.who \in Person \cup {None} /\ job.op \in {"sent", "stored"}
         /\ job # Idle => [job EXCEPT !.op = "stored"] \in AuthJob
BY DEF AuthJob, Idle

-----------------------------------------------------------------------------
(* Tabs that a step leaves alone or clears                                 *)

LEMMA SameTab ==
  ASSUME NEW u \in Tab, TabInvariant(u), tab'[u] = tab[u], page'[u] = page[u],
         Told' /\ inbox'[u] = 0 => Told /\ inbox[u] = 0 /\ cookie' = cookie
  PROVE  TabInvariant(u)'
BY DEF TabInvariant, At

LEMMA ClearedTab ==
  ASSUME NEW u \in Tab, tab'[u].key = None, page'[u] = Idle
  PROVE  TabInvariant(u)'
BY ConstantsAssumption DEF TabInvariant, At, Idle

\* A tab that locks, with or without its shell.
LEMMA Cleared ==
  ASSUME TypeOK, NEW t \in Tab, Restart(t) \/ Lock(t)
  PROVE  /\ tab' \in [Tab -> TabRow] /\ page' \in [Tab -> PageJob]
         /\ shell' \in [Tab -> ShellJob]
         /\ tab'[t].key = None /\ page'[t] = Idle
         /\ \A u \in Tab \ {t} : tab'[u] = tab[u] /\ page'[u] = page[u]
<1>1. /\ tab' = [tab EXCEPT ![t] = WithoutKey(tab[t])]
      /\ page' = [page EXCEPT ![t] = Idle]
      /\ \/ shell' = [shell EXCEPT ![t] = Idle]
         \/ shell' = [shell EXCEPT ![t] = Late(shell[t])]
  BY DEF Restart, Lock, AfterLock
<1>2. /\ WithoutKey(tab[t]) \in TabRow /\ WithoutKey(tab[t]).key = None
      /\ Late(shell[t]) \in ShellJob
      /\ Idle \in PageJob /\ Idle \in ShellJob
  BY LockedRow, LateJob DEF TypeOK, PageJob, ShellJob
<1> QED
  BY <1>1, <1>2 DEF TypeOK

LEMMA ToldTabs ==
  ASSUME TypeOK, NEW t \in Tab, Tell(t)
  PROVE  /\ inbox' \in [Tab -> 0 .. MaxInbox]
         /\ inbox'[t] = inbox[t]
         /\ \A u \in Tab \ {t} : inbox'[u] # 0
<1>1. \A u \in Tab : inbox[u] \in Nat /\ inbox[u] <= MaxInbox /\ MaxInbox \in Nat
  BY ConstantsAssumption DEF TypeOK
<1>2. /\ \A u \in Tab \ {t} : inbox[u] < MaxInbox
      /\ inbox' = [u \in Tab |-> IF u = t THEN inbox[u] ELSE inbox[u] + 1]
  BY DEF Tell
<1> QED
  BY <1>1, <1>2

\* A change of the session that one tab meets leaves no tab behind.
LEMMA ChangedTabs ==
  ASSUME TypeOK, NEW t \in Tab, SessionChanged(t), NEW u \in Tab, TabInvariant(u)
  PROVE  TabInvariant(u)'
<1>1. CASE u = t
  BY <1>1, Cleared, ClearedTab DEF SessionChanged
<1>2. CASE u # t
  BY <1>2, Cleared, ToldTabs, SameTab DEF SessionChanged
<1> QED
  BY <1>1, <1>2

-----------------------------------------------------------------------------
(* Steps                                                                   *)

Inv == TypeOK /\ \A t \in Tab : TabInvariant(t)

\* A tab locks, or reads a message.
LEMMA LockStep ==
  ASSUME Inv, NEW t \in Tab, LockTab(t) \/ Receive(t)
  PROVE  Inv'
<1>1. TypeOK /\ (Restart(t) \/ Lock(t)) /\ UNCHANGED <<cookie, server, auth, misled>>
  BY DEF Inv, LockTab, Receive
<1>2. inbox' \in [Tab -> 0 .. MaxInbox] /\ \A u \in Tab \ {t} : inbox'[u] = inbox[u]
  <2>1. CASE LockTab(t)
    BY <2>1, <1>1 DEF LockTab, TypeOK
  <2>2. CASE Receive(t)
    <3>1. inbox[t] \in 0 .. MaxInbox /\ inbox[t] > 0 /\ MaxInbox \in Nat
      BY <1>1, <2>2, ConstantsAssumption DEF Receive, TypeOK
    <3>2. inbox[t] - 1 \in 0 .. MaxInbox
      BY <3>1
    <3> QED
      BY <1>1, <2>2, <3>2 DEF Receive, TypeOK
  <2> QED
    BY <2>1, <2>2
<1>3. TypeOK'
  BY <1>1, <1>2, Cleared DEF TypeOK
<1>4. Told' = Told
  BY <1>1 DEF Told
<1>5. ASSUME NEW u \in Tab
      PROVE  TabInvariant(u)'
  <2>1. CASE u = t
    BY <1>1, <2>1, Cleared, ClearedTab
  <2>2. CASE u # t
    BY <1>1, <1>2, <1>4, <2>2, Cleared, SameTab DEF Inv
  <2> QED
    BY <2>1, <2>2
<1> QED
  BY <1>3, <1>5 DEF Inv

\* A login or a logout: while its cookies are new, no tab has to know of them.
LEMMA AuthStep ==
  ASSUME Inv, NEW t \in Tab, Authenticate(t)
  PROVE  Inv'
<1>1. /\ TypeOK /\ auth[t] \in AuthJob /\ Idle \in AuthJob
      /\ \A u \in Tab : TabInvariant(u)
  BY DEF Inv, TypeOK, AuthJob
<1>2. ASSUME SessionChanged(t), UNCHANGED server,
             cookie' \in Person \cup {None}, auth' \in [Tab -> AuthJob], misled' \in BOOLEAN
      PROVE  TypeOK'
  BY <1>1, <1>2, Cleared, ToldTabs DEF SessionChanged, TypeOK
<1>3. CASE \E who \in Person \cup {None} : BeginAuth(t, who)
  <2>1. PICK who \in Person \cup {None} : BeginAuth(t, who)
    BY <1>3
  <2>2. [op |-> "sent", who |-> who] \in AuthJob
    BY DEF AuthJob
  <2>3. /\ auth' \in [Tab -> AuthJob] /\ SessionChanged(t) /\ UNCHANGED <<cookie, server, misled>>
    BY <1>1, <2>1, <2>2 DEF BeginAuth, TypeOK
  <2> QED
    BY <1>1, <1>2, <2>3, ChangedTabs DEF Inv, TypeOK
<1>4. CASE CommitCookie(t)
  <2>1. /\ auth[t].op = "sent" /\ cookie' = auth[t].who
        /\ auth' = [auth EXCEPT ![t].op = "stored"]
        /\ UNCHANGED <<server, tab, page, shell, inbox, misled>>
    BY <1>4 DEF CommitCookie
  <2>2. /\ auth[t] # Idle /\ auth[t].who \in Person \cup {None}
        /\ [auth[t] EXCEPT !.op = "stored"] \in AuthJob
    BY <1>1, <2>1, KindsOfAuth
  <2>3. auth' \in [Tab -> AuthJob] /\ auth'[t].op = "stored"
    <3>1. [auth[t] EXCEPT !.op = "stored"].op = "stored"
      BY <1>1, <2>2 DEF AuthJob
    <3> QED
      BY <1>1, <2>1, <2>2, <3>1 DEF TypeOK
  <2>4. ~Told'
    BY <2>3 DEF Told
  <2>5. TypeOK'
    BY <1>1, <2>1, <2>2, <2>3 DEF TypeOK
  <2>6. \A u \in Tab : TabInvariant(u)'
    BY <1>1, <2>1, <2>4, SameTab
  <2> QED
    BY <2>5, <2>6 DEF Inv
<1>5. ASSUME SessionChanged(t), UNCHANGED <<cookie, server>>,
             auth' = [auth EXCEPT ![t] = Idle], misled' \in BOOLEAN
      PROVE  Inv'
  <2>1. auth' \in [Tab -> AuthJob] /\ cookie' \in Person \cup {None}
    BY <1>1, <1>5 DEF TypeOK
  <2> QED
    BY <1>1, <1>2, <1>5, <2>1, ChangedTabs DEF Inv
<1>6. CASE EndAuth(t)
  BY <1>5, <1>6 DEF EndAuth
<1>7. CASE FailAuth(t) /\ auth[t].who = None
  <2>1. misled' \in BOOLEAN
    BY <1>1, <1>7 DEF FailAuth, TypeOK
  <2> QED
    BY <1>5, <1>7, <2>1 DEF FailAuth
<1>8. CASE FailAuth(t) /\ auth[t].who # None
  <2>1. /\ misled' = (misled \/ auth[t].op = "stored")
        /\ auth' = [auth EXCEPT ![t] = Idle]
        /\ UNCHANGED <<cookie, server, tab, page, shell, inbox>>
    BY <1>8 DEF FailAuth
  <2>2. misled' \in BOOLEAN
    BY <2>1
  <2>3. auth' \in [Tab -> AuthJob] /\ TypeOK'
    BY <1>1, <2>1, <2>2 DEF TypeOK
  <2>4. Told' => Told
    <3>1. SUFFICES ASSUME Told', NEW u \in Tab
                   PROVE  ~misled /\ auth[u].op # "stored"
      BY DEF Told
    <3>2. ~misled /\ auth[t].op # "stored"
      BY <2>1, <3>1 DEF Told
    <3>3. u # t => auth'[u] = auth[u]
      BY <1>1, <2>1 DEF TypeOK
    <3> QED
      BY <3>1, <3>2, <3>3 DEF Told
  <2>5. \A u \in Tab : TabInvariant(u)'
    BY <1>1, <2>1, <2>4, SameTab
  <2> QED
    BY <2>3, <2>5 DEF Inv
<1> QED
  BY <1>3, <1>4, <1>6, <1>7, <1>8 DEF Authenticate

\* A step of one tab that tells nobody.
LEMMA OwnStep ==
  ASSUME Inv, NEW t \in Tab, UNCHANGED <<cookie, auth, misled>>,
         server' \in [Person -> 0 .. MaxRevision],
         inbox' \in [Tab -> 0 .. MaxInbox],
         \A u \in Tab \ {t} : inbox'[u] = 0 => inbox[u] = 0,
         NEW row \in TabRow, tab' = [tab EXCEPT ![t] = row],
         NEW job \in PageJob, page' = [page EXCEPT ![t] = job],
         shell' \in [Tab -> ShellJob],
         TabInvariant(t)'
  PROVE  Inv'
<1>1. TypeOK'
  BY DEF Inv, TypeOK
<1>2. Told' = Told
  BY DEF Told
<1>3. ASSUME NEW u \in Tab, u # t
      PROVE  TabInvariant(u)'
  BY <1>2, <1>3, SameTab DEF Inv, TypeOK
<1> QED
  BY <1>1, <1>3 DEF Inv

\* The unlock of a vault.
LEMMA UnlockStep ==
  ASSUME Inv, NEW t \in Tab, BeginUnlock(t) \/ FetchMe(t) \/ DeriveKey(t)
  PROVE  Inv'
<1>1. /\ TypeOK /\ TabInvariant(t) /\ tab[t] \in TabRow /\ page[t] \in PageJob
      /\ tab = [tab EXCEPT ![t] = tab[t]] /\ Late(shell[t]) \in ShellJob
      /\ MaxRevision \in Nat \ {0}
  BY LateJob, ConstantsAssumption DEF Inv, TypeOK
<1>2. UNCHANGED <<cookie, server, auth, inbox, misled>>
  BY DEF BeginUnlock, FetchMe, DeriveKey
<1>3. Told' = Told
  BY <1>2 DEF Told
<1>4. CASE BeginUnlock(t)
  <2> DEFINE job == [op |-> "unlock", at |-> "me", of |-> cookie, revision |-> server[cookie]]
  <2>1. /\ cookie \in Person /\ page[t] = Idle /\ page' = [page EXCEPT ![t] = job]
        /\ UNCHANGED <<tab, shell>>
    BY <1>1, <1>4 DEF BeginUnlock, Begin, TypeOK
  <2>2. server[cookie] \in 0 .. MaxRevision
    BY <1>1, <2>1 DEF TypeOK
  <2>3. job \in PageJob /\ job.op = "unlock" /\ job.at = "me" /\ job.of = cookie
    BY <2>1, <2>2 DEF PageJob
  <2> HIDE DEF job
  <2>4. tab[t].key # Unsaved
    BY <1>1, <2>1 DEF TabInvariant, Idle
  <2>5. page'[t] = job /\ tab'[t] = tab[t]
    BY <1>1, <2>1 DEF TypeOK
  <2>6. TabInvariant(t)'
    BY <1>1, <1>2, <1>3, <2>3, <2>4, <2>5 DEF TabInvariant, At
  <2> QED
    BY <1>1, <1>2, <2>1, <2>3, <2>6, OwnStep DEF TypeOK
<1>5. CASE FetchMe(t)
  <2>1. /\ page[t] # Idle /\ page[t].op = "unlock" /\ page[t].at = "me"
        /\ cookie \in Person /\ cookie # None
    BY <1>1, <1>5, ConstantsAssumption DEF FetchMe, At, TypeOK
  <2>2. page[t].of \in Person /\ page[t].revision \in 0 .. MaxRevision
    BY <1>1, <2>1, KindsOfJobs
  <2>3. PICK row \in TabRow : /\ tab' = [tab EXCEPT ![t] = row]
                              /\ row.who = cookie /\ row.revision = page[t].revision
                              /\ row.key = None \/ row = tab[t]
    <3>1. CASE Bound(t, cookie, page[t].revision)
      BY <1>1, <1>5, <3>1 DEF FetchMe, Bound
    <3>2. CASE ~Bound(t, cookie, page[t].revision)
      <4> DEFINE new == [key |-> None, who |-> cookie, revision |-> page[t].revision]
      <4>1. new \in TabRow
        BY <2>1, <2>2, ConstantsAssumption DEF TabRow
      <4>2. tab' = [tab EXCEPT ![t] = new]
        BY <1>5, <3>2 DEF FetchMe, Rebind
      <4> QED
        BY <4>1, <4>2
    <3> QED
      BY <3>1, <3>2
  <2>4. shell' \in [Tab -> ShellJob]
    BY <1>1, <1>5 DEF FetchMe, TypeOK
  <2>5. PICK job \in PageJob :
            /\ page' = [page EXCEPT ![t] = job]
            /\ \/ job = Idle
               \/ /\ page[t].revision > 0 /\ job.op = "unlock" /\ job.of = page[t].of
    <3>1. CASE page[t].revision = 0
      BY <1>5, <3>1 DEF FetchMe, End, PageJob
    <3>2. CASE page[t].revision # 0
      <4> DEFINE new == [op |-> "unlock", at |-> "derive", of |-> page[t].of]
      <4>1. new \in PageJob
        BY <2>2 DEF PageJob
      <4>2. page' = [page EXCEPT ![t] = new]
        BY <1>5, <3>2 DEF FetchMe, Await
      <4>3. page[t].revision > 0
        BY <1>1, <2>2, <3>2
      <4> QED
        BY <4>1, <4>2, <4>3
    <3> QED
      BY <3>1, <3>2
  <2>6. tab'[t] = row /\ page'[t] = job
    BY <1>1, <2>3, <2>5 DEF TypeOK
  <2>7. tab[t].key # Unsaved /\ (Told /\ inbox[t] = 0 =>
            tab[t].key \in {None, cookie} /\ page[t].of = cookie)
    BY <1>1, <2>1 DEF TabInvariant
  <2>8. row.key # Unsaved /\ (Told /\ inbox[t] = 0 => row.key \in {None, cookie})
    BY <2>3, <2>7, ConstantsAssumption
  <2>9. TabInvariant(t)'
    <3>1. CASE job = Idle
      BY <1>2, <1>3, <2>6, <2>8, <3>1 DEF TabInvariant, At, Idle
    <3>2. CASE page[t].revision > 0 /\ job.op = "unlock" /\ job.of = page[t].of
      BY <1>2, <1>3, <2>1, <2>3, <2>6, <2>7, <2>8, <3>2 DEF TabInvariant, At
    <3> QED
      BY <2>5, <3>1, <3>2
  <2> QED
    BY <1>1, <1>2, <2>3, <2>4, <2>5, <2>9, OwnStep DEF TypeOK
<1>6. CASE DeriveKey(t)
  <2>1. /\ page[t] # Idle /\ page[t].op = "unlock" /\ page[t].at = "derive"
        /\ At(t, "unlock", "derive")
    BY <1>6 DEF DeriveKey, At
  <2>2. page[t].of \in Person
    BY <1>1, <2>1, KindsOfJobs
  <2>3. tab[t].revision > 0 /\ tab[t].who # None
    BY <1>1, <2>1 DEF TabInvariant
  <2> DEFINE row == [tab[t] EXCEPT !.key = page[t].of]
  <2>4. row \in TabRow /\ row.key = page[t].of
    BY <1>1, <2>2, <2>3 DEF TabRow
  <2>5. /\ tab' = [tab EXCEPT ![t] = row] /\ page' = [page EXCEPT ![t] = Idle]
        /\ shell' = shell
    BY <1>6 DEF DeriveKey, End
  <2> HIDE DEF row
  <2>6. tab'[t] = row /\ page'[t] = Idle /\ Idle \in PageJob
    BY <1>1, <2>5 DEF TypeOK, PageJob
  <2>7. Told /\ inbox[t] = 0 => page[t].of = cookie
    BY <1>1, <2>1 DEF TabInvariant
  <2>8. row.key # Unsaved
    BY <2>2, <2>4, ConstantsAssumption
  <2>9. TabInvariant(t)'
    BY <1>2, <1>3, <2>4, <2>6, <2>7, <2>8 DEF TabInvariant, At, Idle
  <2> QED
    BY <1>1, <1>2, <2>4, <2>5, <2>6, <2>9, OwnStep DEF TypeOK
<1> QED
  BY <1>4, <1>5, <1>6

\* A page that ends, with or without its key.
LEMMA EndedPage ==
  ASSUME Inv, NEW t \in Tab, UNCHANGED <<cookie, auth, inbox, misled>>,
         server' \in [Person -> 0 .. MaxRevision],
         EndLocked(t) \/ (page[t].op # "setup" /\ End(t) /\ UNCHANGED <<tab, shell>>)
  PROVE  Inv'
<1>1. /\ TypeOK /\ TabInvariant(t) /\ tab[t] \in TabRow
      /\ tab = [tab EXCEPT ![t] = tab[t]] /\ Late(shell[t]) \in ShellJob
      /\ Idle \in PageJob /\ inbox' \in [Tab -> 0 .. MaxInbox]
  BY LateJob DEF Inv, TypeOK, PageJob
<1>2. Told' = Told
  BY DEF Told
<1>3. CASE EndLocked(t)
  <2>1. /\ tab' = [tab EXCEPT ![t] = WithoutKey(tab[t])]
        /\ page' = [page EXCEPT ![t] = Idle]
        /\ shell' \in [Tab -> ShellJob]
    BY <1>1, <1>3, LockedRow DEF EndLocked, End, TypeOK
  <2>2. WithoutKey(tab[t]) \in TabRow /\ WithoutKey(tab[t]).key = None
    BY <1>1, LockedRow
  <2>3. tab'[t].key = None /\ page'[t] = Idle
    BY <1>1, <2>1, <2>2 DEF TypeOK
  <2>4. TabInvariant(t)'
    BY <2>3, ClearedTab
  <2> QED
    BY <1>1, <2>1, <2>2, <2>4, OwnStep
<1>4. CASE page[t].op # "setup" /\ End(t) /\ UNCHANGED <<tab, shell>>
  <2>1. page' = [page EXCEPT ![t] = Idle] /\ page'[t] = Idle /\ tab'[t] = tab[t]
    BY <1>1, <1>4 DEF End, TypeOK
  <2>2. TabInvariant(t)'
    BY <1>1, <1>2, <1>4, <2>1 DEF TabInvariant, At, Idle
  <2>3. shell' \in [Tab -> ShellJob]
    BY <1>1, <1>4 DEF TypeOK
  <2> QED
    BY <1>1, <1>4, <2>1, <2>2, <2>3, OwnStep
<1> QED
  BY <1>3, <1>4

\* The setup of a vault, with a key of its own.
LEMMA SetupStep ==
  ASSUME Inv, NEW t \in Tab, BeginSetup(t) \/ MakeKey(t) \/ FinalizeSetup(t)
  PROVE  Inv'
<1>1. /\ TypeOK /\ TabInvariant(t) /\ tab[t] \in TabRow /\ page[t] \in PageJob
      /\ tab = [tab EXCEPT ![t] = tab[t]] /\ MaxRevision \in Nat \ {0}
  BY ConstantsAssumption DEF Inv, TypeOK
<1>2. UNCHANGED <<cookie, auth, inbox, misled>>
  BY DEF BeginSetup, MakeKey, FinalizeSetup
<1>3. Told' = Told
  BY <1>2 DEF Told
<1>4. CASE BeginSetup(t)
  <2> DEFINE job == [op |-> "setup", at |-> "derive"]
  <2>1. /\ page[t] = Idle /\ page' = [page EXCEPT ![t] = job]
        /\ UNCHANGED <<tab, shell, server>>
    BY <1>4 DEF BeginSetup, Begin
  <2>2. job \in PageJob /\ job.op = "setup"
    BY DEF PageJob
  <2> HIDE DEF job
  <2>3. page'[t] = job /\ tab'[t] = tab[t]
    BY <1>1, <2>1 DEF TypeOK
  <2>4. TabInvariant(t)'
    BY <1>1, <1>2, <1>3, <2>2, <2>3 DEF TabInvariant, At
  <2> QED
    BY <1>1, <1>2, <2>1, <2>2, <2>4, OwnStep DEF TypeOK
<1>5. CASE MakeKey(t)
  <2> DEFINE job == [op |-> "setup", at |-> "shares", to |-> cookie]
             row == [tab[t] EXCEPT !.key = Unsaved]
  <2>1. /\ tab' = [tab EXCEPT ![t] = row] /\ page' = [page EXCEPT ![t] = job]
        /\ UNCHANGED <<shell, server>>
    BY <1>5 DEF MakeKey, Await
  <2>2. job \in PageJob /\ job.op = "setup"
    BY <1>1 DEF PageJob, TypeOK
  <2>3. row \in TabRow /\ row.key = Unsaved
    BY <1>1, ConstantsAssumption DEF TabRow
  <2> HIDE DEF job, row
  <2>4. page'[t] = job /\ tab'[t] = row
    BY <1>1, <2>1 DEF TypeOK
  <2>5. TabInvariant(t)'
    BY <1>2, <1>3, <2>2, <2>3, <2>4 DEF TabInvariant, At
  <2> QED
    BY <1>1, <1>2, <2>1, <2>2, <2>3, <2>5, OwnStep DEF TypeOK
<1>6. CASE FinalizeSetup(t)
  <2>1. server' \in [Person -> 0 .. MaxRevision] /\ EndLocked(t)
    <3>1. 1 \in 0 .. MaxRevision
      BY <1>1
    <3> QED
      BY <1>1, <1>6, <3>1 DEF FinalizeSetup, TypeOK
  <2> QED
    BY <1>2, <2>1, EndedPage
<1> QED
  BY <1>4, <1>5, <1>6

\* The use of a key.
LEMMA UseStep ==
  ASSUME Inv, NEW t \in Tab,
         BeginUse(t) \/ \E answered \in BOOLEAN : PutMaterial(t, answered)
  PROVE  Inv'
<1>1. /\ TypeOK /\ TabInvariant(t) /\ tab[t] \in TabRow /\ page[t] \in PageJob
      /\ tab = [tab EXCEPT ![t] = tab[t]] /\ MaxRevision \in Nat \ {0}
      /\ Idle \in PageJob /\ Idle \in ShellJob
  BY ConstantsAssumption DEF Inv, TypeOK, PageJob, ShellJob
<1>2. CASE BeginUse(t)
  <2> DEFINE job == [op |-> "use", at |-> "encrypt", of |-> tab[t].key,
                     revision |-> tab[t].revision]
  <2>1. /\ tab[t].key # None /\ page[t] = Idle /\ page' = [page EXCEPT ![t] = job]
        /\ UNCHANGED <<cookie, server, tab, shell, auth, inbox, misled>>
    BY <1>2 DEF BeginUse, Begin
  <2>2. tab[t].key \in Person \cup {Unsaved} /\ tab[t].revision \in 0 .. MaxRevision
    BY <1>1, <2>1 DEF TabRow
  <2>3. job \in PageJob /\ job.op = "use" /\ job.of = tab[t].key
    BY <2>2 DEF PageJob
  <2> HIDE DEF job
  <2>4. tab[t].key # Unsaved
    BY <1>1, <2>1 DEF TabInvariant, Idle
  <2>5. page'[t] = job /\ tab'[t] = tab[t]
    BY <1>1, <2>1 DEF TypeOK
  <2>6. Told' = Told
    BY <2>1 DEF Told
  <2>7. TabInvariant(t)'
    BY <1>1, <2>1, <2>3, <2>4, <2>5, <2>6 DEF TabInvariant, At
  <2> QED
    BY <1>1, <2>1, <2>3, <2>7, OwnStep DEF TypeOK
<1>3. CASE \E answered \in BOOLEAN : PutMaterial(t, answered)
  <2>1. PICK answered \in BOOLEAN : PutMaterial(t, answered)
    BY <1>3
  <2>2. /\ page[t].op = "use" /\ cookie \in Person /\ server[cookie] < MaxRevision
        /\ server' = [server EXCEPT ![cookie] = @ + 1]
        /\ End(t) /\ UNCHANGED <<cookie, auth, misled>>
    BY <1>1, <2>1 DEF PutMaterial, Submits, At, TypeOK
  <2>3. server' \in [Person -> 0 .. MaxRevision]
    <3>1. server[cookie] \in 0 .. MaxRevision
      BY <1>1, <2>2 DEF TypeOK
    <3>2. server[cookie] + 1 \in 0 .. MaxRevision
      BY <1>1, <2>2, <3>1
    <3> QED
      BY <1>1, <2>2, <3>2 DEF TypeOK
  <2>4. CASE answered
    <3>1. /\ tab' = [tab EXCEPT ![t] = WithoutKey(tab[t])]
          /\ page' = [page EXCEPT ![t] = Idle]
          /\ shell' = [shell EXCEPT ![t] = Idle] /\ Tell(t)
      BY <1>1, <2>1, <2>2, <2>4, LockedRow DEF PutMaterial, End
    <3>2. WithoutKey(tab[t]) \in TabRow /\ WithoutKey(tab[t]).key = None
      BY <1>1, LockedRow
    <3>3. tab'[t].key = None /\ page'[t] = Idle /\ shell' \in [Tab -> ShellJob]
      BY <1>1, <3>1, <3>2 DEF TypeOK
    <3>4. TabInvariant(t)'
      BY <3>3, ClearedTab
    <3>5. /\ inbox' \in [Tab -> 0 .. MaxInbox]
          /\ \A u \in Tab \ {t} : inbox'[u] = 0 => inbox[u] = 0
      BY <1>1, <3>1, ToldTabs
    <3> QED
      BY <1>1, <2>2, <2>3, <3>1, <3>2, <3>3, <3>4, <3>5, OwnStep
  <2>5. CASE ~answered
    <3>1. UNCHANGED <<tab, shell, inbox>>
      BY <2>1, <2>5 DEF PutMaterial
    <3> QED
      BY <2>2, <2>3, <3>1, EndedPage
  <2> QED
    BY <2>4, <2>5
<1> QED
  BY <1>2, <1>3

\* A page is left, or learns that the session is over.
LEMMA LeaveStep ==
  ASSUME Inv, NEW t \in Tab, GiveUp(t) \/ Refused(t)
  PROVE  Inv'
<1>1. CASE GiveUp(t)
  BY <1>1, EndedPage DEF GiveUp, Inv, TypeOK
<1>2. CASE Refused(t)
  <2>1. /\ TypeOK /\ SessionChanged(t) /\ UNCHANGED <<cookie, server, auth, misled>>
        /\ \A u \in Tab : TabInvariant(u)
    BY <1>2 DEF Refused, Inv
  <2>2. TypeOK'
    BY <2>1, Cleared, ToldTabs DEF SessionChanged, TypeOK
  <2> QED
    BY <2>1, <2>2, ChangedTabs DEF Inv
<1> QED
  BY <1>1, <1>2

\* The shell asks and binds the tab.
LEMMA ShellStep ==
  ASSUME Inv, NEW t \in Tab, UseShell(t)
  PROVE  Inv'
<1>1. /\ TypeOK /\ TabInvariant(t) /\ tab[t] \in TabRow /\ page[t] \in PageJob
      /\ tab = [tab EXCEPT ![t] = tab[t]] /\ page = [page EXCEPT ![t] = page[t]]
      /\ Idle \in PageJob /\ Idle \in ShellJob
      /\ shell[t] \in ShellJob /\ MaxRevision \in Nat \ {0}
  BY ConstantsAssumption DEF Inv, TypeOK, PageJob, ShellJob
<1>2. UNCHANGED <<cookie, server, auth, inbox, misled>>
  BY DEF UseShell, BeginShell, ShellBind, ShellGivesUp
<1>3. Told' = Told
  BY <1>2 DEF Told
<1>4. CASE BeginShell(t) \/ ShellGivesUp(t)
  <2>1. UNCHANGED <<tab, page>>
    BY <1>4 DEF BeginShell, ShellGivesUp
  <2>2. shell' \in [Tab -> ShellJob]
    <3>1. CASE BeginShell(t)
      <4>1. [op |-> "material", who |-> cookie, current |-> TRUE] \in ShellJob
        BY <1>1, <3>1 DEF BeginShell, TypeOK, ShellJob
      <4> QED
        BY <1>1, <3>1, <4>1 DEF BeginShell, TypeOK
    <3>2. CASE ShellGivesUp(t)
      BY <1>1, <3>2 DEF ShellGivesUp, TypeOK
    <3> QED
      BY <1>4, <3>1, <3>2
  <2>3. TabInvariant(t)'
    BY <1>1, <1>2, <1>3, <2>1, SameTab
  <2> QED
    BY <1>1, <1>2, <2>1, <2>2, <2>3, OwnStep DEF TypeOK
<1>5. CASE ShellBind(t)
  <2>1. PICK revision \in {0} \cup
            {server[o] : o \in IF shell[t].current THEN {cookie} \ {None} ELSE {}} :
          IF Bound(t, shell[t].who, revision) THEN UNCHANGED <<tab, page>>
          ELSE /\ tab' = Rebind(t, shell[t].who, revision)
               /\ page' = [page EXCEPT ![t] = AfterLock(@)]
    BY <1>5 DEF ShellBind
  <2>2. shell[t] # Idle /\ shell[t].who \in Person /\ shell' \in [Tab -> ShellJob]
    BY <1>1, <1>5 DEF ShellBind, ShellJob, TypeOK
  <2>3. revision \in 0 .. MaxRevision
    BY <1>1, <2>1 DEF TypeOK
  <2>4. CASE Bound(t, shell[t].who, revision)
    <3>1. UNCHANGED <<tab, page>>
      BY <2>1, <2>4
    <3>2. TabInvariant(t)'
      BY <1>1, <1>2, <1>3, <3>1, SameTab
    <3> QED
      BY <1>1, <1>2, <2>2, <3>1, <3>2, OwnStep DEF TypeOK
  <2>5. CASE ~Bound(t, shell[t].who, revision)
    <3> DEFINE row == [key |-> None, who |-> shell[t].who, revision |-> revision]
    <3>1. tab' = [tab EXCEPT ![t] = row] /\ page' = [page EXCEPT ![t] = Idle]
      BY <2>1, <2>5 DEF Rebind, AfterLock
    <3>2. row \in TabRow /\ row.key = None
      BY <2>2, <2>3, ConstantsAssumption DEF TabRow
    <3> HIDE DEF row
    <3>3. tab'[t].key = None /\ page'[t] = Idle
      BY <1>1, <3>1, <3>2 DEF TypeOK
    <3>4. TabInvariant(t)'
      BY <3>3, ClearedTab
    <3> QED
      BY <1>1, <1>2, <2>2, <3>1, <3>2, <3>4, OwnStep DEF TypeOK
  <2> QED
    BY <2>4, <2>5
<1> QED
  BY <1>4, <1>5 DEF UseShell

LEMMA InitInvariant == Init => Inv
<1> SUFFICES ASSUME Init
             PROVE  Inv
  OBVIOUS
<1>1. Locked \in TabRow /\ Locked.key = None
  BY ConstantsAssumption DEF Locked, TabRow
<1>2. Idle \in PageJob /\ Idle \in ShellJob /\ Idle \in AuthJob /\ Idle.op = "idle"
  BY DEF PageJob, ShellJob, AuthJob, Idle
<1>3. TypeOK
  <2>1. {0, 1} \subseteq 0 .. MaxRevision /\ 0 \in 0 .. MaxInbox
    BY ConstantsAssumption
  <2>2. server \in [Person -> 0 .. MaxRevision] /\ inbox \in [Tab -> 0 .. MaxInbox]
    BY <2>1 DEF Init
  <2> QED
    BY <1>1, <1>2, <2>2 DEF Init, TypeOK
<1>4. ASSUME NEW t \in Tab
      PROVE  TabInvariant(t)
  <2>1. tab[t].key = None /\ page[t] = Idle
    BY <1>1 DEF Init
  <2> QED
    BY <1>2, <2>1, ConstantsAssumption DEF TabInvariant, At
<1> QED
  BY <1>3, <1>4 DEF Inv

LEMMA NextInvariant == Inv /\ [Next]_vars => Inv'
<1> SUFFICES ASSUME Inv, [Next]_vars
             PROVE  Inv'
  OBVIOUS
<1>1. CASE Next
  BY <1>1, LockStep, AuthStep, UnlockStep, SetupStep, UseStep, LeaveStep, ShellStep
     DEF Next, UsePage
<1>2. CASE UNCHANGED vars
  <2>1. TypeOK'
    BY <1>2 DEF Inv, TypeOK, vars
  <2>2. \A t \in Tab : TabInvariant(t)'
    BY <1>2 DEF Inv, TabInvariant, At, Told, vars
  <2> QED
    BY <2>1, <2>2 DEF Inv
<1> QED
  BY <1>1, <1>2

-----------------------------------------------------------------------------
(* Theorems                                                                *)

\* The inductive invariant holds in every reachable state.
THEOREM InvariantHolds == Spec => []BrowserInvariant
<1>1. Inv => BrowserInvariant
  BY InvariantOfTabs DEF Inv, BrowserInvariant
<1> QED
  BY <1>1, InitInvariant, NextInvariant, PTL DEF Spec

\* The types of the tabs hold: a key that was unwrapped is held by a tab that
\* is bound to an owner and a revision with material.
THEOREM TypeCorrect == Spec => []TypeOK
<1>1. BrowserInvariant => TypeOK
  BY DEF BrowserInvariant
<1> QED
  BY <1>1, InvariantHolds, PTL

\* Whatever unlocks, setups and shells of earlier sessions come back late, a
\* tab holds the key of who is signed in once the tabs know of the session.
THEOREM KeyIsOfTheSessionHolds == Spec => []KeyIsOfTheSession
<1>1. BrowserInvariant => KeyIsOfTheSession
  <2> SUFFICES ASSUME BrowserInvariant, Settled, NEW t \in Tab
               PROVE  \/ tab[t].key \in {None, cookie}
                      \/ tab[t].key = Unsaved /\ page[t].op = "setup"
    BY DEF KeyIsOfTheSession
  <2>1. ~misled /\ inbox[t] = 0 /\ \A u \in Tab : auth[u].op # "stored"
    BY DEF Settled, Idle
  <2> QED
    BY <2>1 DEF BrowserInvariant, TabsAreCurrent, UnsavedInSetup
<1> QED
  BY <1>1, InvariantHolds, PTL

\* Then the server takes nothing that was encrypted or wrapped with the key of
\* another vault.
THEOREM TakesTheVaultsKeyHolds == Spec => []TakesTheVaultsKey
<1>1. BrowserInvariant => TakesTheVaultsKey
  <2> SUFFICES ASSUME BrowserInvariant, Settled, NEW t \in Tab, Submits(t)
               PROVE  page[t].of = cookie
    BY DEF TakesTheVaultsKey
  <2>1. ~misled /\ inbox[t] = 0 /\ \A u \in Tab : auth[u].op # "stored"
    BY DEF Settled, Idle
  <2>2. page[t].op = "use"
    BY DEF Submits, At
  <2> QED
    BY <2>1, <2>2 DEF BrowserInvariant, TabsAreCurrent
<1> QED
  BY <1>1, InvariantHolds, PTL

=============================================================================
