------------------------------ MODULE RouterSpec ------------------------------
(***************************************************************************)
(* What the topic router promises (spec section 4.5): an ordered list of   *)
(* subscriptions, unique by exact filter equality, edited by addRoute and  *)
(* deleteRoute; a default handler; and dispatch of a PUBLISH to the        *)
(* callback of every subscription whose filter matches its topic, or, when *)
(* none matches, to the default handler.  In concurrent mode dispatch to   *)
(* the subscriptions is one atomic step.  In ordered mode the callbacks    *)
(* run one after the other on the router's activity, and the user may     *)
(* edit the subscriptions between them: a dispatch marks the matching      *)
(* subscriptions pending, a subscription added meanwhile that matches may  *)
(* join them, each is served with the callback it has at that moment,      *)
(* and a deleted one is no longer served, unless its call is already       *)
(* under way.  The default handler is consulted in a later step.           *)
(***************************************************************************)
EXTENDS Naturals, Sequences

CONSTANTS Filters,     \* the filters a user subscribes to
          Callbacks,   \* the MessageHandlers a user registers
          Handlers,    \* the handlers a user may make the default
          NoHandler,   \* a nil MessageHandler
          Msgs,        \* the PUBLISH messages the router is handed
          MsgTopic,    \* the topic of each message
          Matches(_, _)  \* Matches(filter, topic): the router's topic test

VARIABLES table,       \* the subscriptions: a sequence of [filter, cb]
          dflt,        \* the default handler
          dispatched,  \* the messages the router has dispatched
          awaiting,    \* dispatched messages no subscription matched
          invoked,     \* the callback invocations: [m, cb] records
          ordered,     \* the dispatch mode chosen at construction
          current,     \* ordered mode: {m} while m is being dispatched, else {}
          pending,     \* ordered mode: [m, filter, cb] still to be served
          request      \* the user's latest call, as a tuple

vars == <<table, dflt, dispatched, awaiting, invoked, ordered, current, pending, request>>

Init == /\ table = <<>>
        /\ dflt = NoHandler
        /\ dispatched = {}
        /\ awaiting = {}
        /\ invoked = {}
        /\ ordered \in BOOLEAN
        /\ current = {}
        /\ pending = {}
        /\ request = <<>>

\* The filter of a pending call whose subscription was deleted.
Detached == <<>>

\* The position of the subscription for filter f, if any.
Holding(f) == {i \in 1..Len(table) : table[i].filter = f}

\* A new subscription matching the message under ordered dispatch may join
\* its pending calls.
Add(f, cb) ==
    /\ table' = IF Holding(f) # {}
                   THEN [i \in 1..Len(table) |->
                           IF i \in Holding(f) THEN [table[i] EXCEPT !.cb = cb] ELSE table[i]]
                   ELSE Append(table, [filter |-> f, cb |-> cb])
    /\ IF Holding(f) # {}
          THEN pending' = {IF p.filter = f THEN [p EXCEPT !.cb = cb] ELSE p : p \in pending}
          ELSE \E join \in SUBSET {[m |-> c, filter |-> f, cb |-> cb] :
                                    c \in {d \in current : Matches(f, MsgTopic[d])}} :
                  pending' = pending \cup join
    /\ request' = <<"add", f, cb>>
    /\ UNCHANGED <<dflt, dispatched, awaiting, invoked, ordered, current>>

Delete(f) ==
    /\ table' = SelectSeq(table, LAMBDA r : r.filter # f)
    /\ \E under \in SUBSET {p \in pending : p.filter = f} :
          pending' = {p \in pending : p.filter # f} \cup
                     {[p EXCEPT !.filter = Detached] : p \in under}
    /\ request' = <<"delete", f>>
    /\ UNCHANGED <<dflt, dispatched, awaiting, invoked, ordered, current>>

SetDefault(h) ==
    /\ dflt' = h /\ request' = <<"default", h>>
    /\ UNCHANGED <<table, dispatched, awaiting, invoked, ordered, current, pending>>

\* The subscriptions matching message m.
Matching(m) == {table[i] : i \in {j \in 1..Len(table) : Matches(table[j].filter, MsgTopic[m])}}

\* One message at a time; in ordered mode the previous one must be finished.
Dispatch(m) ==
    /\ m \notin dispatched /\ current = {}
    /\ dispatched' = dispatched \cup {m}
    /\ IF ordered
          THEN /\ pending' = {[m |-> m, filter |-> r.filter, cb |-> r.cb] : r \in Matching(m)}
               /\ current' = {m}
               /\ UNCHANGED invoked
          ELSE /\ invoked' = invoked \cup {[m |-> m, cb |-> r.cb] : r \in Matching(m)}
               /\ UNCHANGED <<current, pending>>
    /\ awaiting' = IF Matching(m) = {} THEN awaiting \cup {m} ELSE awaiting
    /\ UNCHANGED <<table, dflt, ordered, request>>

\* Ordered mode: a pending subscription's callback is called.
Serve(p) ==
    /\ p \in pending
    /\ pending' = pending \ {p}
    /\ invoked' = invoked \cup {[m |-> p.m, cb |-> p.cb]}
    /\ UNCHANGED <<table, dflt, dispatched, awaiting, ordered, current, request>>

\* Ordered mode: every pending subscription was served.
Finish ==
    /\ current # {} /\ pending = {}
    /\ current' = {}
    /\ UNCHANGED <<table, dflt, dispatched, awaiting, invoked, ordered, pending, request>>

Default(m) ==
    /\ m \in awaiting
    /\ awaiting' = awaiting \ {m}
    /\ invoked' = IF dflt = NoHandler THEN invoked ELSE invoked \cup {[m |-> m, cb |-> dflt]}
    /\ UNCHANGED <<table, dflt, dispatched, ordered, current, pending, request>>

Next == \/ \E f \in Filters, cb \in Callbacks : Add(f, cb)
        \/ \E f \in Filters : Delete(f)
        \/ \E h \in Handlers \cup {NoHandler} : SetDefault(h)
        \/ \E m \in Msgs : Dispatch(m) \/ Default(m)
        \/ \E p \in pending : Serve(p)
        \/ Finish

Spec == Init /\ [][Next]_vars
===============================================================================
