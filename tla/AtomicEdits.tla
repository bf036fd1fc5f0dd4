---------------------------- MODULE AtomicEdits ----------------------------
(***************************************************************************)
(* What an edit promises a client, with no transaction, row or readback in it. *)
(* A request changes the program it names and no other, all that it asks for at *)
(* once or nothing, and only while what it is about is still what the client *)
(* has seen, unless the user changed what had been looked at too early.  Then *)
(* the client is told that it is done, or that nothing happened, or that it is *)
(* not known which of the two.                                             *)
(***************************************************************************)
CONSTANTS
    Programs, Original,
    Effect(_, _),     \* Effect(d, r): database d with what request r asks for
    Agrees(_, _, _),  \* Agrees(d, v, r): d is as view v shows it, and r says, where r looks
    Early(_),         \* the places <<table, key>> r looks at before others are kept out
    UserMay(_, _)     \* UserMay(d, e): the GUI user may turn d into e

VARIABLES
    open,       \* the program the user has before him
    db,         \* the database of each program
    expected,   \* the program the client means
    view,       \* what the client has seen of it
    request,    \* what the client asks for
    edit,       \* none, asked, done, refused, doubt
    meanwhile   \* the user changed a place the request had looked at

vars == <<open, db, expected, view, request, edit, meanwhile>>

Init ==
    /\ open \in Programs /\ expected = open
    /\ db = [p \in Programs |-> Original] /\ view = Original
    /\ edit = "none" /\ ~ meanwhile

UserSwitches ==
    /\ open' \in Programs \ {open}
    /\ UNCHANGED <<db, expected, view, request, edit, meanwhile>>

UserEdits ==
    /\ UNCHANGED <<open, expected, view, request, edit>>
    /\ db' # db /\ db' = [db EXCEPT ![open] = db'[open]]
    /\ UserMay(db[open], db'[open])
    /\ meanwhile' = (meanwhile \/
            (edit = "asked" /\ open = expected
                /\ \E x \in Early(request) : db'[open][x[1]][x[2]] # db[open][x[1]][x[2]]))

Look ==
    /\ edit = "none"
    /\ expected' = open /\ view' = db[open]
    /\ UNCHANGED <<open, db, request, edit, meanwhile>>

\* The client makes up a request, and asks for it or thinks better of it.
Ask ==
    /\ edit = "none"
    /\ edit' \in {"none", "asked"}
    /\ UNCHANGED <<open, db, expected, view, meanwhile>>

Apply ==
    /\ edit = "asked" /\ edit' \in {"done", "doubt"}
    /\ edit' = "done" => open = expected
    /\ Agrees(db[expected], view, request) \/ meanwhile
    /\ db' = [db EXCEPT ![expected] = Effect(@, request)]
    /\ ~ meanwhile'
    /\ UNCHANGED <<open, expected, view, request>>

Fail ==
    /\ edit = "asked" /\ edit' \in {"refused", "doubt"}
    /\ ~ meanwhile'
    /\ UNCHANGED <<open, db, expected, view, request>>

\* The client's view comes nearer to the database.
Learn ==
    /\ edit = "done" /\ edit' = "none"
    /\ view' = [f \in DOMAIN view |-> [k \in DOMAIN view[f] |-> view'[f][k]]]
    /\ \A f \in DOMAIN view : \A k \in DOMAIN view[f] :
        view'[f][k] \in {view[f][k], db[expected][f][k]}
    /\ UNCHANGED <<open, db, expected, request, meanwhile>>

Doubt ==
    /\ edit = "done" /\ edit' = "doubt"
    /\ UNCHANGED <<open, db, expected, view, request, meanwhile>>

GoOn ==
    /\ edit = "refused" /\ edit' = "none"
    /\ UNCHANGED <<open, db, expected, view, request, meanwhile>>

Next ==
    \/ UserSwitches \/ UserEdits
    \/ Look \/ Ask \/ Learn \/ Doubt \/ GoOn
    \/ Apply \/ Fail

Spec == Init /\ [][Next]_vars
=============================================================================
