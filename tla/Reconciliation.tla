--------------------------- MODULE Reconciliation ---------------------------
(***************************************************************************)
(* What a level-triggered controller promises to whoever writes a          *)
(* DeviceConfig, without its queue, caches, watches and single calls: a    *)
(* DeviceConfig for which nothing is to be done any more has the children  *)
(* it asks for.  Children change one at a time; they never pass from one   *)
(* name to another, nor back to an older incarnation of a name; and        *)
(* whoever loses a child without having asked for it has something to do.  *)
(***************************************************************************)
EXTENDS Naturals

CONSTANTS
    Configs,        \* names of DeviceConfigs
    Specs,          \* what they may ask for
    Children,       \* the objects a controller makes
    Contents,       \* what the objects may hold
    Asks,           \* Asks[s][k]: the contents s asks of child k, {} for no child
    Kept,           \* children whose drift is noticed
    Tamperable,     \* children that others may change
    MaxGen          \* bound: incarnations of DeviceConfigs

VARIABLES
    demand,     \* demand[c]: whether c exists, its incarnation and its spec
    objects,    \* objects[k]: {} or the one object called k, owner and content
    todo        \* the DeviceConfigs for which something is to be done

vars == <<demand, objects, todo>>

TypeOK ==
    /\ demand \in [Configs -> [exists: BOOLEAN, gen: 0..MaxGen, spec: Specs]]
    /\ objects \in [Children ->
                       SUBSET [owner: [name: Configs, gen: 0..MaxGen], conf: Contents]]
    /\ todo \subseteq Configs

Init ==
    /\ demand \in [Configs -> [exists: {FALSE}, gen: {0}, spec: Specs]]
    /\ objects = [k \in Children |-> {}]
    /\ todo = {}

Mine(k, c) == {x \in objects[k] : x.owner.name = c}

Object(c, gen, content) == [owner |-> [name |-> c, gen |-> gen], conf |-> content]

Asked(k, c) == {Object(c, demand[c].gen, a) : a \in Asks[demand[c].spec][k]}

\* Nothing is left to do for c.
Right(c) == demand[c].exists => \A k \in Kept : Mine(k, c) = Asked(k, c)

Lives(owner) == demand[owner.name].exists /\ demand[owner.name].gen = owner.gen

-----------------------------------------------------------------------------
\* DeviceConfig c is created, edited or deleted.
Demand(c) ==
    /\ todo' = todo \cup {c}
    /\ UNCHANGED objects
    /\ \E e \in BOOLEAN, g \in demand[c].gen..MaxGen, s \in Specs :
          demand' = [demand EXCEPT ![c] = [exists |-> e, gen |-> g, spec |-> s]]

\* Child k is created or updated for c, in a version of c that may be out of date.
Write(k, c) ==
    /\ c \in todo
    /\ UNCHANGED <<demand, todo>>
    /\ \E g \in 0..demand[c].gen, s \in Specs :
          /\ Asks[s][k] # {}
          /\ \A x \in objects[k] : x.owner.name = c /\ x.owner.gen <= g
          /\ objects' = [objects EXCEPT ![k] = {Object(c, g, a) : a \in Asks[s][k]}]

\* Child k, which is x, becomes new: an owner that asks for k gets something to do.
Change(k, x, new) ==
    /\ objects' = [objects EXCEPT ![k] = new]
    /\ todo' \in {todo, todo \cup {x.owner.name}}
    /\ (k \in Kept /\ Lives(x.owner) /\ Asks[demand[x.owner.name].spec][k] # {})
          => x.owner.name \in todo'
    /\ UNCHANGED demand

\* Somebody who is to be reconciled asks for no child k: it is deleted, whoever
\* owns it.
Remove(k) ==
    /\ todo # {} /\ \E s \in Specs : Asks[s][k] = {}
    /\ \E x \in objects[k] : Change(k, x, {})

\* Others delete child k or change its content.
Tamper(k) ==
    /\ k \in Tamperable
    /\ \E x \in objects[k] :
          Change(k, x, {}) \/ \E a \in Contents : Change(k, x, {[x EXCEPT !.conf = a]})

\* The owner is gone, and so is the child.
Collect(k) == \E x \in objects[k] : ~Lives(x.owner) /\ Change(k, x, {})

\* More is found to do, and something is done: only what is right is left alone.
Settle ==
    /\ UNCHANGED <<demand, objects>>
    /\ todo' \in SUBSET Configs
    /\ \A c \in todo \ todo' : Right(c)

Next ==
    \/ Settle
    \/ \E c \in Configs : Demand(c)
    \/ \E k \in Children : (\E c \in Configs : Write(k, c)) \/ Remove(k) \/ Tamper(k) \/ Collect(k)

Spec == Init /\ [][Next]_vars

-----------------------------------------------------------------------------
\* The promise: what is not being worked on is right.
Reconciled == \A c \in Configs \ todo : Right(c)

\* There is at most one object of a name.
OneObject == \A k \in Children : \A x, y \in objects[k] : x = y
=============================================================================
