----------------------------- MODULE ReplyBook ------------------------------
(***************************************************************************)
(* What a governed runtime promises its callers, whatever runs beside a    *)
(* call: faults go on record in the name of a request only while it is     *)
(* pending; the reply tells exactly the record of its own request, once;   *)
(* the request that is left open is the one whose reply says so.           *)
(***************************************************************************)
CONSTANTS Request, Kind,
          Orphan   \* the kind of fault that leaves a request open

VARIABLES
    reply,   \* to each request
    record,  \* the kinds of fault on record in its name
    held     \* the requests that stand open

vars == <<reply, record, held>>

Unasked == [state |-> "unasked"]
Pending == [state |-> "pending"]
Refused == [state |-> "refused"]
Told(status, kinds, orphan) ==
    [state |-> "told", status |-> status, kinds |-> kinds, orphan |-> orphan]

Init == /\ reply = [c \in Request |-> Unasked]
        /\ record = [c \in Request |-> {}]
        /\ held = {}

Ask(c) == /\ reply[c] = Unasked
          /\ \E x \in {Pending, Refused} : reply' = [reply EXCEPT ![c] = x]
          /\ held' = held \cup {c}
          /\ UNCHANGED record

Find(c, k) == /\ reply[c] = Pending /\ k # Orphan
              /\ record' = [record EXCEPT ![c] = @ \cup {k}]
              /\ UNCHANGED <<reply, held>>

\* A request is closed with what is on record, and completed only if that is
\* nothing; something else may have failed it.
Close(c) == /\ reply[c] = Pending /\ Orphan \notin record[c]
            /\ \E status \in {"completed", "failed"} :
                  /\ status = "completed" => record[c] = {}
                  /\ reply' = [reply EXCEPT ![c] = Told(status, record[c], FALSE)]
            /\ held' = held \ {c}
            /\ UNCHANGED record

\* A request left open has that on record, and its reply tells it.
Abandon(c) == LET kinds == record[c] \cup {Orphan} IN
              /\ reply[c] = Pending /\ Orphan \notin record[c]
              /\ record' = [record EXCEPT ![c] = kinds]
              /\ reply' = [reply EXCEPT ![c] = Told("failed", kinds, TRUE)]
              /\ UNCHANGED held

\* An error takes the reply's place, with the request closed or not.
Refuse(c) == /\ reply[c] = Pending
             /\ reply' = [reply EXCEPT ![c] = Refused]
             /\ record' \in {record, [record EXCEPT ![c] = @ \cup {Orphan}]}
             /\ held' \in {held, held \ {c}}

Forget == record' = [c \in Request |-> {}] /\ UNCHANGED <<reply, held>>

Next == \/ Forget
        \/ \E c \in Request : \/ Ask(c) \/ Close(c) \/ Abandon(c) \/ Refuse(c)
                              \/ \E k \in Kind : Find(c, k)

Spec == Init /\ [][Next]_vars
=============================================================================
