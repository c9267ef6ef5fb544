------------------------------ MODULE GraphNode -----------------------------
(***************************************************************************)
(* A graph node's children (node.rs): threads of the application call get  *)
(* while the node's actor takes the values of puts out to the children.    *)
(* The map of the children is behind an std RwLock.                        *)
(*                                                                         *)
(* The read guard of get (line 222) is a temporary of the scrutinee of an  *)
(* if let.  In the edition the crate is written in (2018, Cargo.toml:4) it *)
(* lives as long as the whole if let, the else branch included.            *)
(***************************************************************************)
CONSTANTS
    Threads,    \* threads of the application with a clone of the node
    Keys,       \* keys that are not empty
    Actor,      \* the node's actor, none of the threads
    NoKey       \* none of the keys

VARIABLES
    children,   \* the keys that have a child
    readers,    \* who holds the lock for reading
    pc,         \* what a thread or the actor does next
    key,        \* the key it does it with
    started,    \* children whose actor runs, in the map or not yet
    told        \* children whose subscribers have been sent a value

vars == <<children, readers, pc, key, started, told>>

Procs == Threads \cup {Actor}

Init == /\ children = {}
        /\ readers = {}
        /\ pc = [p \in Procs |-> "idle"]
        /\ key = [p \in Procs |-> NoKey]
        /\ started = {}
        /\ told = {}

Goto(p, place) == pc' = [pc EXCEPT ![p] = place]

Call(t, k) == /\ pc[t] \in {"idle", "returned"}
              /\ key' = [key EXCEPT ![t] = k]
              /\ Goto(t, "read")
              /\ UNCHANGED <<children, readers, started, told>>

(* The actor handles a put of this node with a value for child k.  *)
HandlePut(k) == /\ pc[Actor] = "idle"
                /\ key' = [key EXCEPT ![Actor] = k]
                /\ Goto(Actor, "read")
                /\ UNCHANGED <<children, readers, started, told>>

(* children.read(): nobody holds the lock to write between two steps, and  *)
(* whom of those who wait the lock lets in is not specified.               *)
Read(p) == /\ pc[p] = "read"
           /\ readers' = readers \cup {p}
           /\ Goto(p, "find")
           /\ UNCHANGED <<children, key, started, told>>

(* The child is there: it is cloned and returned, and the guard dropped.   *)
Found(t) == /\ pc[t] = "find"
            /\ key[t] \in children
            /\ readers' = readers \ {t}
            /\ Goto(t, "returned")
            /\ UNCHANGED <<children, key, started, told>>

(* The else branch: new_child makes the child and starts its actor, and    *)
(* asks for the lock to write.  The guard of the if let is still there.    *)
NewChild(t) == /\ pc[t] = "find"
               /\ key[t] \notin children
               /\ started' = started \cup {key[t]}
               /\ Goto(t, "write")
               /\ UNCHANGED <<children, readers, key, told>>

(* children.write() waits for every reader.  *)
Write(t) == /\ pc[t] = "write"
            /\ readers = {}
            /\ children' = children \cup {key[t]}
            /\ Goto(t, "returned")
            /\ UNCHANGED <<readers, key, started, told>>

(* The actor sends the value to the child it finds, under the guard.  *)
Tell == /\ pc[Actor] = "find"
        /\ told' = IF key[Actor] \in children THEN told \cup {key[Actor]} ELSE told
        /\ readers' = readers \ {Actor}
        /\ Goto(Actor, "idle")
        /\ UNCHANGED <<children, key, started>>

Next == \/ \E t \in Threads : \/ \E k \in Keys : Call(t, k)
                              \/ Found(t) \/ NewChild(t) \/ Write(t)
        \/ \E k \in Keys : HandlePut(k)
        \/ \E p \in Procs : Read(p)
        \/ Tell

(* Threads and the actor run, and the lock is fair to those who want it:   *)
(* more than std promises.  Puts and calls need not come.                  *)
Fairness == /\ \A t \in Threads : /\ WF_vars(Found(t)) /\ WF_vars(NewChild(t))
                                  /\ SF_vars(Write(t))
            /\ \A p \in Procs : SF_vars(Read(p))
            /\ WF_vars(Tell)

Spec == Init /\ [][Next]_vars /\ Fairness

-----------------------------------------------------------------------------
(* "Return a child Node corresponding to the given key." (node.rs:216): a  *)
(* call of get returns, for a new key as well.                             *)
GetReturns == \A t \in Threads : pc[t] = "read" ~> pc[t] = "returned"
=============================================================================
