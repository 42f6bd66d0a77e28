----------------------------- MODULE MemoryBook -----------------------------
(***************************************************************************)
(* What the saved memory of backend/memory.py promises its callers: every  *)
(* request that succeeds acts at once on the fact that is current, however *)
(* long it was staged and whatever else committed meanwhile.  There are no *)
(* revisions here and no transactions.                                     *)
(***************************************************************************)
CONSTANTS
  MemKeys,   \* (category, key) pairs of the one owner
  Values,    \* remembered values
  NoValue,   \* no value
  NoPolicy   \* no sensitivity given

Policies == {"local_only", "remote_allowed"}

\* The tasks: three chat commands, then the REST routes.
Tasks == {"remember", "update", "forget", "create", "patch", "delete"}

\* A request names its key and gives the value and the sensitivity that its task
\* takes; a patch gives at least one of the two.
Requests ==
  { r \in [task : Tasks, key : MemKeys, value : Values \cup {NoValue},
           policy : Policies \cup {NoPolicy}] :
      /\ r.task \in {"remember", "update", "create"} => r.value # NoValue
      /\ r.task \in {"forget", "delete"} => r.value = NoValue
      /\ r.task = "create" => r.policy # NoPolicy
      /\ r.task \notin {"create", "patch"} => r.policy = NoPolicy
      /\ r.task = "patch" => r.value # NoValue \/ r.policy # NoPolicy }

VARIABLES
  book,    \* [key -> the fact]: its value and who may see it
  served   \* the request served last

\* Nothing is known of a key, or it was forgotten.
Blank == [value |-> NoValue, policy |-> "local_only"]
Facts == [value : Values \cup {NoValue}, policy : Policies]

\* A request on fact f that the routes and the chat do not refuse.
Permitted(f, r) ==
  /\ r.task = "create" => f.value = NoValue
  /\ r.task \notin {"create", "remember"} => f.value # NoValue

\* What a request leaves alone keeps the value it has at that moment.
Effect(f, r) ==
  IF r.task \in {"forget", "delete"} THEN Blank
  ELSE [value  |-> IF r.value = NoValue THEN f.value ELSE r.value,
        policy |-> IF r.policy = NoPolicy THEN f.policy ELSE r.policy]

Init ==
  /\ book \in [MemKeys -> [value : Values, policy : {"local_only"}] \cup {Blank}]
  /\ served \notin Requests

Serve(r) ==
  /\ Permitted(book[r.key], r)
  /\ book' = [book EXCEPT ![r.key] = Effect(@, r)]
  /\ served' = r

Next == \E r \in Requests : Serve(r)

Spec == Init /\ [][Next]_<<book, served>>
=============================================================================
