---------------------------- MODULE SingleFlight ----------------------------
(***************************************************************************)
(* What DataLoader.loadData promises: loads of a key are flights, and a    *)
(* key has at most one flight in the air.  A request leads a flight, or    *)
(* gets the outcome of a flight of its key that has landed, or takes the   *)
(* data from the cache, or gives up.                                       *)
(***************************************************************************)
CONSTANTS Key, Request, KeyOf, Foreign, None

VARIABLES
    flight,  \* each request's own flight
    data,    \* what a landed flight has brought
    answer   \* what the request's caller gets

vars == <<flight, data, answer>>

Data == Request \cup {Foreign}

Flight == {"none", "air", "landed", "crashed"}

\* Errors and time-outs are answers too.
Answer == [of : {"value"}, data : Data] \cup [of : {"error", "timeout"}]

TypeOK ==
    /\ flight \in [Request -> Flight]
    /\ data \in [Request -> Data \cup {None}]
    /\ answer \in [Request -> Answer \cup {None}]

Init ==
    /\ flight = [r \in Request |-> "none"]
    /\ data = [r \in Request |-> None]
    /\ answer = [r \in Request |-> None]

Value(d) == [of |-> "value", data |-> d]
Error    == [of |-> "error"]
TimeOut  == [of |-> "timeout"]

Give(r, a) ==
    /\ answer[r] = None
    /\ answer' = [answer EXCEPT ![r] = a]
    /\ UNCHANGED <<flight, data>>

TakeOff(r) ==
    /\ answer[r] = None
    /\ flight[r] = "none"
    /\ \A q \in Request : KeyOf[q] = KeyOf[r] => flight[q] # "air"
    /\ flight' = [flight EXCEPT ![r] = "air"]
    /\ UNCHANGED <<data, answer>>

\* The data of a request leaves it only once its flight has landed.
Public(d, k) == d \in Request => KeyOf[d] = k /\ flight[d] = "landed"

\* A flight brings data this request loaded, data of the cache, or an error.
Land(r) ==
    /\ flight[r] = "air"
    /\ \/ \E d \in Data :
            /\ d = r \/ Public(d, KeyOf[r])
            /\ flight' = [flight EXCEPT ![r] = "landed"]
            /\ data' = [data EXCEPT ![r] = d]
       \/ flight' = [flight EXCEPT ![r] = "crashed"] /\ UNCHANGED data
    /\ UNCHANGED answer

\* The outcome of flight p, its leader's or a passenger's answer.
AnswerFrom(r, p) ==
    /\ KeyOf[p] = KeyOf[r]
    /\ flight[r] = "none" \/ r = p
    /\ \/ flight[p] = "landed" /\ Give(r, Value(data[p]))
       \/ flight[p] = "crashed" /\ Give(r, Error)

\* The cache answers (or throws), or the request gives up.
AnswerFromCache(r) ==
    /\ flight[r] = "none"
    /\ \/ \E d \in Data :
            /\ Public(d, KeyOf[r])
            /\ Give(r, Value(d))
       \/ Give(r, Error)
       \/ Give(r, TimeOut)

Next ==
    \E r \in Request :
        \/ TakeOff(r) \/ Land(r) \/ AnswerFromCache(r)
        \/ \E p \in Request : AnswerFrom(r, p)

Spec == Init /\ [][Next]_vars
=============================================================================
