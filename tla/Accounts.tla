------------------------------ MODULE Accounts ------------------------------
(***************************************************************************)
(* Users, projects, members and keys (api/auth.py, api/projects.py,        *)
(* api/members.py, api/api_keys.py, api/plugins.py and their stores), and  *)
(* what a request to run a transform passes before it runs                 *)
(* (TransformExecutionService.validate_and_prepare), the cool-down of      *)
(* Billing at its end.                                                     *)
(*                                                                         *)
(* One project of Owner and one other user, Guest, whose requests come     *)
(* several at once.  Each request has a session of the database: it loads  *)
(* what it changes in one statement and writes it in another.              *)
(***************************************************************************)
EXTENDS Billing

CONSTANTS
  Owner, Guest,  \* the users
  Secrets,       \* API keys a user may save for the service
  Roles,         \* roles a member may be given
  RowIds,        \* bound: rows of api_keys
  MaxRequests,   \* bound: requests in all
  MaxMixed       \* bound: requests and changes, once there is a subscription

ASSUME AccountsAssumption ==
  /\ Owner # Guest /\ "editor" \in Roles
  /\ None \notin Secrets \cup Roles \cup {Owner, Guest}
  /\ None \notin {"role", "enabled", "marked", "keys", "project"}
  /\ MaxRequests \in Nat /\ MaxMixed \in Nat

\* The bound on the rows is never met: an id is a fresh UUID.
ASSUME RowsAssumption == IsFiniteSet(RowIds) => Cardinality(RowIds) > MaxRequests

VARIABLES
  profiles,  \* users that have a row
  project,   \* "private", "public" or None when it has been deleted
  role,      \* the membership of Guest, or None
  enabled,   \* Guest's preference for the plugin, or None
  marked,    \* whether Guest has bookmarked the project, or None
  keys,      \* the rows of api_keys for Guest and the service
  req,       \* where each request stands
  said,      \* history: for each subject, what the last requests about it,
  before,    \*   which overlap, have answered; and what was found before them
  asked      \* requests so far

accountVars == <<profiles, project, role, enabled, marked, keys, req, said, before, asked>>
\* What only changes with a write, and what only changes when a request comes.
tables == <<profiles, project, role, enabled, marked, keys>>
batch  == <<before, asked>>
vars == <<accountVars, billingVars>>

Users    == {Owner, Guest}
Clients  == Gates
Subjects == {"role", "enabled", "marked", "keys", "project"}

\* The service has no unique constraint: several rows may answer for it.
KeyRow(i, s) == [id |-> i, secret |-> s]
Visible(rows) == IF rows = {} THEN {None} ELSE {k.secret : k \in rows}

Value(x) == CASE x = "role"    -> role
              [] x = "enabled" -> enabled
              [] x = "marked"  -> marked
              [] x = "project" -> project

\* What a reader may find of a subject.
Found(x) == IF x = "keys" THEN Visible(keys) ELSE {Value(x)}

\* A request: what it is for, who asks, the subject and the value wanted.
Request(op, who, subject, want) == [op |-> op, who |-> who, subject |-> subject, want |-> want]

Requests ==
       {Request("add", Owner, "role", r) : r \in Roles}
  \cup {Request("update", Owner, "role", r) : r \in Roles}
  \cup {Request("remove", u, "role", None) : u \in Users}
  \cup {Request("publish", u, "project", v) : u \in Users, v \in {"public", "private"}}
  \cup {Request("delete", Owner, "project", None)}
  \cup {Request("bookmark", Guest, "marked", "yes"), Request("unbookmark", Guest, "marked", None)}
  \cup {Request("save", Guest, "keys", s) : s \in Secrets}
  \cup {Request("forget", Guest, "keys", None)}
  \cup {Request("plugin", Guest, "enabled", v) : v \in {"on", "off"}}
  \cup {Request("run", Guest, None, None)}

Idle == [pc |-> "idle", ask |-> None, saw |-> None]

AccountsInit ==
  /\ BillingInit
  /\ project \in {"private", "public"} /\ role \in {None, "editor"}
  /\ profiles = IF role = None THEN {Owner} ELSE Users
  /\ enabled = None /\ marked = None
  /\ \/ keys = {}
     \/ role # None /\ \E s \in Secrets : keys = {KeyRow(CHOOSE i \in RowIds : TRUE, s)}
  /\ req = [c \in Clients |-> Idle]
  /\ said = [x \in Subjects |-> {}]
  /\ before = [x \in Subjects |-> Found(x)]
  /\ asked = 0

Move(c, pc) == req' = [req EXCEPT ![c].pc = pc]
End(c)      == req' = [req EXCEPT ![c] = Idle]

About(x) == {c \in Clients : req[c].pc # "idle" /\ req[c].ask.subject = x}

\* A request is answered with success.
Answer(c) ==
  LET a == req[c].ask IN
  /\ said' = IF a.subject = None THEN said ELSE [said EXCEPT ![a.subject] = @ \cup {a.want}]
  /\ End(c)

-----------------------------------------------------------------------------
\* A request arrives; of a subject nobody is at the history starts afresh.
Arrive(c, a) ==
  /\ req[c].pc = "idle" /\ asked < MaxRequests
  /\ latest.version > 0 => asked + latest.version < MaxMixed
  /\ asked' = asked + 1
  /\ req' = [req EXCEPT ![c] = [Idle EXCEPT !.pc = "auth", !.ask = a]]
  /\ said'   = [x \in Subjects |-> IF About(x) = {} THEN {} ELSE said[x]]
  /\ before' = [x \in Subjects |-> IF About(x) = {} THEN Found(x) ELSE before[x]]
  /\ UNCHANGED <<tables, billingVars>>

\* get_current_user: the profile is read, and inserted when there is none;
FirstCheck(a) == IF a.op \in {"save", "forget", "plugin", "unbookmark"} THEN "load" ELSE "project"

ReadProfile(c) ==
  /\ req[c].pc = "auth"
  /\ Move(c, IF req[c].ask.who \in profiles THEN FirstCheck(req[c].ask) ELSE "insert")
  /\ UNCHANGED <<tables, said, batch, billingVars>>

\* Mutant: the insert is not tried again as a read.
InsertProfileOnce(c) ==
  /\ req[c].pc = "insert"
  /\ profiles' = profiles \cup {req[c].ask.who}
  /\ Move(c, IF req[c].ask.who \in profiles THEN "turned_away" ELSE FirstCheck(req[c].ask))
  /\ UNCHANGED <<project, role, enabled, marked, keys, said, batch, billingVars>>

\* an insert that finds the row of another request is rolled back.
InsertProfile(c) ==
  /\ req[c].pc = "insert"
  /\ profiles' = profiles \cup {req[c].ask.who}
  /\ Move(c, IF req[c].ask.who \in profiles THEN "reread" ELSE FirstCheck(req[c].ask))
  /\ UNCHANGED <<project, role, enabled, marked, keys, said, batch, billingVars>>

RereadProfile(c) ==
  /\ req[c].pc = "reread"
  /\ Move(c, IF req[c].ask.who \in profiles THEN FirstCheck(req[c].ask) ELSE "turned_away")
  /\ UNCHANGED <<tables, said, batch, billingVars>>

-----------------------------------------------------------------------------
(***************************************************************************)
(* get_member_role.                                                        *)
(***************************************************************************)
Fail(c) == End(c) /\ UNCHANGED said

\* The roles a request needs; None where anybody may go on.
Needs(a) == CASE a.op \in {"add", "update", "delete"} -> {"owner"}
              [] a.op \in {"publish", "run"}          -> {"owner", "editor"}
              [] a.op = "remove" -> IF a.who = Owner THEN {"owner"} ELSE Roles \cup {"viewer", None}

\* The project is read, and kept by the session;
ReadProject(c) ==
  LET a == req[c].ask IN
  /\ req[c].pc = "project"
  /\ IF project = None \/ (a.op = "bookmark" /\ project = "private") THEN Fail(c)
     ELSE /\ req' = [req EXCEPT ![c].saw = project,
                                ![c].pc = IF a.op = "bookmark" THEN "load" ELSE "member"]
          /\ UNCHANGED said
  /\ UNCHANGED <<tables, batch, billingVars>>

\* then the membership, but for its owner; anyone may see a public project.
ReadMember(c) ==
  LET a == req[c].ask
      r == CASE a.who = Owner                 -> "owner"
             [] a.who # Owner /\ role # None -> role
             [] a.who # Owner /\ role = None -> IF req[c].saw = "public" THEN "viewer" ELSE None
  IN /\ req[c].pc = "member"
     /\ IF r \in Needs(a)
        THEN Move(c, IF a.op = "run" THEN "preference" ELSE "load") /\ UNCHANGED said
        ELSE Fail(c)
     /\ UNCHANGED <<tables, batch, billingVars>>

-----------------------------------------------------------------------------
(***************************************************************************)
(* A change of one row, loaded as it is.                                   *)
(***************************************************************************)
\* add_member finds the profile by email, or has to create it; a profile
\* that somebody else creates at the same moment is answered "not found".
Create(c) ==
  /\ req[c].pc = "create"
  /\ profiles' = profiles \cup {Guest}
  /\ IF Guest \in profiles THEN Fail(c) ELSE Move(c, "load") /\ UNCHANGED said
  /\ UNCHANGED <<project, role, enabled, marked, keys, batch, billingVars>>

\* 404 and 409: what is to be changed is missing, or there already.
Refused(a) == CASE a.op \in {"add", "bookmark"}                          -> Found(a.subject) # {None}
                [] a.op \in {"update", "remove", "unbookmark", "forget"} -> Found(a.subject) = {None}
                [] OTHER                                                 -> FALSE

\* The row, which for the project is the one of the role check; all the rows
\* of a key.
Loaded(c) == CASE req[c].ask.subject = "keys"    -> keys
               [] req[c].ask.subject = "project" -> req[c].saw
               [] OTHER                          -> Value(req[c].ask.subject)

Load(c) ==
  /\ req[c].pc = "load"
  /\ IF req[c].ask.op = "add" /\ Guest \notin profiles THEN Move(c, "create") /\ UNCHANGED said
     ELSE IF Refused(req[c].ask) THEN Fail(c)
     ELSE req' = [req EXCEPT ![c].pc = "write", ![c].saw = Loaded(c)] /\ UNCHANGED said
  /\ UNCHANGED <<tables, batch, billingVars>>

\* An insert needs that there is no row, and a project it is about; an update
\* that the row is there, unless no column of it has changed, which for
\* the others is always the time of the update; a deletion needs nothing.
Commits(a, saw) ==
  CASE a.want = None                 -> TRUE
    [] a.want # None /\ saw = None   -> /\ Value(a.subject) = None
                                        /\ a.subject = "enabled" \/ project # None
    [] a.want # None /\ saw # None   -> \/ Value(a.subject) # None
                                        \/ a.subject = "role" /\ saw = a.want

\* Only a column that differs from what was loaded is written; the rows about
\* a project go with it.
Stored(a, saw) == IF a.want # None /\ saw = a.want THEN Value(a.subject) ELSE a.want
Kept(x, a, saw) == IF a.subject = x THEN Stored(a, saw) ELSE Value(x)

Store(a, saw) ==
  LET gone == a.op = "delete" IN
  /\ project' = Kept("project", a, saw)
  /\ role'    = IF gone THEN None ELSE Kept("role", a, saw)
  /\ marked'  = IF gone THEN None ELSE Kept("marked", a, saw)
  /\ enabled' = Kept("enabled", a, saw)

\* A preference that cannot be written is logged, and answered all the same.
Write(c) ==
  LET a == req[c].ask IN
  /\ req[c].pc = "write" /\ a.subject # "keys"
  /\ IF Commits(a, req[c].saw) THEN Store(a, req[c].saw) /\ Answer(c)
     ELSE /\ UNCHANGED <<role, marked, enabled, project>>
          /\ IF a.subject = "enabled" THEN Answer(c) ELSE Fail(c)
  /\ UNCHANGED <<profiles, keys, batch, billingVars>>

Ids(rows) == {k.id : k \in rows}
Without(gone) == {k \in keys : k.id \notin Ids(gone)}

\* A row that is inserted has an id that no other row has or had.
NewId == CHOOSE i \in RowIds : \A c \in Clients :
           /\ i \notin Ids(keys)
           /\ req[c].pc = "write" /\ req[c].ask.subject = "keys" => i \notin Ids(req[c].saw)

\* ApiKeyStore.set_key: a key is put into any one of the rows that were read,
\* and the others are deleted; an update of a row that is gone is an error.
SaveKey(c) ==
  LET a == req[c].ask
      rows == req[c].saw
  IN /\ req[c].pc = "write" /\ a.op = "save"
     /\ \/ rows = {} /\ keys' = keys \cup {KeyRow(NewId, a.want)} /\ Answer(c)
        \/ \E first \in rows :
             \/ /\ first.id \in Ids(keys)
                /\ keys' = Without(rows) \cup {KeyRow(first.id, a.want)}
                /\ Answer(c)
             \/ first.id \notin Ids(keys) /\ Fail(c) /\ UNCHANGED keys
     /\ UNCHANGED <<profiles, project, role, enabled, marked, batch, billingVars>>

\* Mutant: of several rows one is deleted.
ForgetOneKey(c) ==
  /\ req[c].pc = "write" /\ req[c].ask.op = "forget"
  /\ \E k \in req[c].saw : keys' = Without({k})
  /\ Answer(c)
  /\ UNCHANGED <<profiles, project, role, enabled, marked, batch, billingVars>>

\* ApiKeyStore.delete_key: the rows that were read are deleted.
ForgetKey(c) ==
  /\ req[c].pc = "write" /\ req[c].ask.op = "forget"
  /\ keys' = Without(req[c].saw)
  /\ Answer(c)
  /\ UNCHANGED <<profiles, project, role, enabled, marked, batch, billingVars>>

-----------------------------------------------------------------------------
(***************************************************************************)
(* validate_and_prepare, after the role.                                   *)
(***************************************************************************)
\* The preference of the user for the plugin of the transform,
ReadPreference(c) ==
  /\ req[c].pc = "preference"
  /\ IF enabled = "off" THEN Fail(c) ELSE Move(c, "key") /\ UNCHANGED said
  /\ UNCHANGED <<tables, batch, billingVars>>

\* the key its required setting takes from the store, and the policy.
ReadKey(c) ==
  /\ req[c].pc = "key"
  /\ IF keys = {} THEN Fail(c) /\ UNCHANGED gate
     ELSE Move(c, "policy") /\ UNCHANGED said /\ gate' = [gate EXCEPT ![c].pc = "plan"]
  /\ UNCHANGED <<tables, batch, stripeVars, rowVars, usage, holder, admissions>>

\* The request leaves with what the policy says.
Leave(c) ==
  /\ req[c].pc = "policy" /\ gate[c].pc \in {"admitted", "refused"}
  /\ Fail(c)
  /\ gate' = [gate EXCEPT ![c] = IdleGate]
  /\ UNCHANGED <<tables, batch, stripeVars, rowVars, usage, holder, admissions>>

-----------------------------------------------------------------------------
Handle(c) ==
  \/ ReadProfile(c) \/ InsertProfile(c) \/ RereadProfile(c)
  \/ ReadProject(c) \/ ReadMember(c) \/ Create(c) \/ Load(c) \/ Write(c)
  \/ SaveKey(c) \/ ForgetKey(c) \/ ReadPreference(c) \/ ReadKey(c) \/ Leave(c)

AccountsNext ==
  \/ \E c \in Clients : (\E a \in Requests : Arrive(c, a)) \/ Handle(c)
  \/ BillingNext /\ UNCHANGED accountVars

Spec == AccountsInit /\ [][AccountsNext]_vars

-----------------------------------------------------------------------------
(***************************************************************************)
(* Properties.                                                             *)
(***************************************************************************)
TypeOK ==
  /\ profiles \subseteq Users /\ project \in {"private", "public", None}
  /\ role \in Roles \cup {None} /\ enabled \in {"on", "off", None} /\ marked \in {"yes", None}
  /\ keys \subseteq [id : RowIds, secret : Secrets] /\ Cardinality(Ids(keys)) = Cardinality(keys)
  /\ \A c \in Clients : gate[c].pc # "idle" <=> req[c].pc = "policy"
  /\ holder # None => gate[holder].pc \in {"late", "record"}
  /\ row # None => row.status \in {"checkout_completed", "active", "canceled"} /\ row.end \in Times
  /\ usage \in Times \cup {None}

\* auth.py:108-119: the first requests of a user, which a browser sends all at
\* once, all find a profile, whoever inserts it.
NobodyIsTurnedAway == \A c \in Clients : req[c].pc # "turned_away"

\* api_key_store.py:53-97, members.py, user_plugin_preference_store.py:44-67,
\* projects.py: when the requests about a subject are over, what any reader
\* finds is what one of those that overlapped at the end has answered, or, if
\* none did, what was there before: nothing older comes back, a saved key is
\* the only one, a forgotten one gone, whatever rows earlier requests left.
LastWordStands ==
  \A x \in Subjects :
    About(x) = {} /\ (x \in {"role", "marked"} => project # None)
      => Found(x) \subseteq IF said[x] = {} THEN before[x] ELSE said[x]

\* auth.py:108-119 and the stores: what many requests at once leave behind is
\* well formed, refuses nobody and is the word of the last ones.
RequestsSettle == TypeOK /\ NobodyIsTurnedAway /\ LastWordStands
=============================================================================
