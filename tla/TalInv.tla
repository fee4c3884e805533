------------------------------- MODULE TalInv -------------------------------
(***************************************************************************)
(* The inductive invariant of Tal.                                         *)
(***************************************************************************)
EXTENDS Tal

\* A live object is in the list of its parent, once, and the lists hold
\* nothing else.
Lists ==
  /\ \A o \in Obj \cup {Root} :
       /\ IsInjective(kids[o])
       /\ \A c \in ToSet(kids[o]) : state[c] = "live" /\ parent[c] = o
  /\ \A o \in Obj \ Allocated : kids[o] = <<>>
  /\ \A o \in Obj : state[o] = "live" => parent[o] \in Node /\ o \in ToSet(kids[parent[o]])

\* No parent is its own descendant: whatever set of objects one takes, some
\* parent is outside of it.
NoCycle ==
  \A S \in SUBSET Allocated : S # {} => \E c \in S : parent[c] \notin S

\* A parent was allocated once.
Known == \A c \in Allocated : parent[c] # Root => state[parent[c]] # "fresh"

\* A notifier is in one list, once.
Owned ==
  /\ \A o \in Obj \ Allocated : props[o] = <<>>
  /\ \A o \in Obj \cup {Root} :
       /\ IsInjective(props[o])
       /\ \A n \in ToSet(props[o]) : notif[n].status = "set"
       /\ \A p \in Obj \cup {Root} : o # p => ToSet(props[o]) \cap ToSet(props[p]) = {}

\* Not called, and there from before the destruction.
Waiting(n) == notif[n].ran = 0 /\ ~notif[n].late

\* Called if it is to be called at all.
Served(n) == "free" \in notif[n].types /\ ~notif[n].late => notif[n].ran = 1

\* Of a del_tree whose place in the list is known: those that notify has
\* still to look at wait, and it has called the others.
FrameRan(f) ==
  \/ ~Destroys(f) \/ f.at \notin ToSet(props[f.obj]) \cup {NoProp}
  \/ \A n \in ToSet(props[f.obj]) :
       IF f.phase # "children" /\ n \in ToSet(Rest(f)) THEN Waiting(n) ELSE Served(n)

\* Notifiers wait until their object is destroyed.
Ran ==
  /\ \A n \in Prop : notif[n].ran <= 1 /\ (notif[n].status = "freed" => Served(n))
  /\ \A o \in Obj \cup {Root} :
       o = Root \/ state[o] = "live" => \A n \in ToSet(props[o]) : Waiting(n)
  /\ \A i \in DOMAIN stack : FrameRan(stack[i])

\* Of a frame: del_tree has an object that is being destroyed, and a place
\* in its list unless a notifier was deleted in its callback; who is told of a
\* child is no destructor; a destructor that is called is forgotten.
Sound(f) ==
  /\ Destroys(f) =>
       /\ state[f.obj] = "dying"
       /\ f.at \notin ToSet(props[f.obj]) \cup {NoProp} =>
            f.phase = "call" /\ notif[f.at].status = "deleted" /\ ~notif[f.at].destructor
  /\ f.phase \in {"told", "wild"} => ~notif[f.at].destructor
  /\ f.phase \in {"told", "wild", "call"} => f.at # NoProp
  /\ f.phase = "children" => f.at = NoProp
  /\ f.at # NoProp =>
       /\ notif[f.at].status # "fresh"
       /\ notif[f.at].destructor => notif[f.at].fn = NoFn

\* No two del_trees have the same object, and only the innermost frame is
\* between two callbacks, or wild.
Frames ==
  /\ \A i \in DOMAIN stack : Sound(stack[i])
  /\ \A i, j \in DOMAIN stack :
       i # j /\ Destroys(stack[i]) /\ Destroys(stack[j]) => stack[i].obj # stack[j].obj
  /\ \A i \in DOMAIN stack : stack[i].phase \in {"notify", "wild"} => i = 1

\* Somebody is notified of the end, of a child that is freed, or of both.
Kinds == {{"free"}, {"free", "del_child"}, {"del_child"}}

Kinded ==
  \A n \in Prop : notif[n].status = "set" =>
    notif[n].types \in Kinds /\ (notif[n].destructor => notif[n].types = {"free"})

IInv ==
  /\ TypeOK /\ Lists /\ NoCycle /\ Known /\ Owned /\ Frames /\ Ran
  /\ Kinded /\ NotifiersCounted
=============================================================================
