-------------------------------- MODULE Tal --------------------------------
(***************************************************************************)
(* ccan/tal: a tree of objects, where freeing an object calls its          *)
(* destructors and then frees its children.  Destructors are application   *)
(* code and may call tal again, on any object they know, also on the ones  *)
(* being freed further up the stack.                                       *)
(*                                                                         *)
(* Objects and notifier properties are numbered in the order in which they *)
(* are allocated and no number is used twice, so that a pointer to freed   *)
(* memory can be told from any other.  The stack has a frame for each      *)
(* tal_free that tells the parent of the object, and for each del_tree     *)
(* that is under way, with the loop of its notify.  A callback may free    *)
(* what such a loop goes on with: the frame is then wild, and nothing is   *)
(* said of what follows.                                                   *)
(***************************************************************************)
EXTENDS Integers, Sequences, SequencesExt, FiniteSetsExt

CONSTANTS
  MaxObj,   \* bound: allocations
  MaxProp,  \* bound: notifiers and destructors added
  MaxDepth, \* bound: frames on the stack when tal_free is called
  Fn        \* callback functions

ASSUME TalAssumption ==
  /\ MaxObj \in Nat /\ MaxProp \in Nat /\ MaxDepth \in Nat
  /\ 0 \notin Fn

Obj == 1 .. MaxObj
Prop == 1 .. MaxProp
Root == 0    \* null_parent
NoProp == 0  \* the end of a list of properties
NoFn == 0    \* n->u.destroy is NULL

VARIABLES
  state,      \* of an object: the destroying bit of parent_child, and whether
              \* it is allocated at all
  parent,     \* parent_child->parent
  kids,       \* the list of children
  props,      \* the list of notifier properties
  notif,      \* struct notifier
  notifiers,  \* the count of notifiers that are not destructors
  stack       \* the frames under way, the innermost first

vars == <<state, parent, kids, props, notif, notifiers, stack>>
tree == <<parent, kids>>

Allocated == {o \in Obj : state[o] \in {"live", "dying"}}
Node == Allocated \cup {Root}

Notifier ==
  [status : {"fresh", "set", "deleted", "freed"}, types : SUBSET {"free", "del_child"},
   destructor : BOOLEAN, fn : Fn \cup {NoFn}, ran : Nat, late : BOOLEAN]

Unused == [status |-> "fresh", types |-> {}, destructor |-> FALSE, fn |-> NoFn,
           ran |-> 0, late |-> FALSE]

\* What is left of a notifier that was deleted.
Deleted(n) == [Unused EXCEPT !.status = "deleted", !.destructor = n.destructor]

NewObj == Min({o \in Obj : state[o] = "fresh"})
NewProp == Min({n \in Prop : notif[n].status = "fresh"})

\* Application code runs: main, or a callback.
Top == stack[1]
AppRuns == stack = <<>> \/ (stack # <<>> /\ Top.phase \in {"call", "told"})

\* o and what is below it: what every set with o has that has the children of
\* all its objects.
Within(o) ==
  {c \in Allocated : \A S \in SUBSET Allocated :
     o \in S /\ (\A d \in Allocated : parent[d] \in S => d \in S) => c \in S}
-----------------------------------------------------------------------------
(* The calls that do not free *)

\* add_child puts the child first.
AddChild(lists, ctx, o) == [lists EXCEPT ![ctx] = <<o>> \o @]

\* tal_alloc_
TalAlloc(ctx) ==
  /\ AppRuns /\ \E o \in Obj : state[o] = "fresh"
  /\ state' = [state EXCEPT ![NewObj] = "live"]
  /\ parent' = [parent EXCEPT ![NewObj] = ctx]
  /\ kids' = AddChild(kids, ctx, NewObj)
  /\ UNCHANGED <<props, notif, notifiers, stack>>

\* tal_steal_.  The caller must not steal an object that is being
\* destroyed, or move it below itself.
TalSteal(o) ==
  /\ AppRuns /\ state[o] = "live"
  /\ \E ctx \in Node \ Within(o) :
       /\ kids' = AddChild([kids EXCEPT ![parent[o]] = RemoveFirst(@, o)], ctx, o)
       /\ parent' = [parent EXCEPT ![o] = ctx]
  /\ UNCHANGED <<state, props, notif, notifiers, stack>>

\* Mutant: the children are not told of the new address.
TalResizeNoFix(o) ==
  /\ AppRuns /\ state[o] = "live" /\ \E p \in Obj : state[p] = "fresh"
  /\ state' = [state EXCEPT ![o] = "freed", ![NewObj] = "live"]
  /\ parent' = [p \in Obj |->
       CASE p = NewObj -> parent[o] [] p = o -> Root
         [] OTHER -> parent[p]]
  /\ kids' = [kids EXCEPT ![parent[o]] = [i \in DOMAIN @ |-> IF @[i] = o THEN NewObj ELSE @[i]],
                          ![NewObj] = kids[o], ![o] = <<>>]
  /\ props' = [props EXCEPT ![NewObj] = props[o], ![o] = <<>>]
  /\ UNCHANGED <<notif, notifiers, stack>>

\* tal_resize_ to other memory: the neighbours in the list and the children
\* property are told.  The caller must not resize an object that is being
\* destroyed.
TalResize(o) ==
  /\ AppRuns /\ state[o] = "live" /\ \E p \in Obj : state[p] = "fresh"
  /\ state' = [state EXCEPT ![o] = "freed", ![NewObj] = "live"]
  /\ parent' = [p \in Obj |->
       CASE p = NewObj -> parent[o] [] p = o -> Root
         [] OTHER -> IF parent[p] = o THEN NewObj ELSE parent[p]]
  /\ kids' = [kids EXCEPT ![parent[o]] = [i \in DOMAIN @ |-> IF @[i] = o THEN NewObj ELSE @[i]],
                          ![NewObj] = kids[o], ![o] = <<>>]
  /\ props' = [props EXCEPT ![NewObj] = props[o], ![o] = <<>>]
  /\ UNCHANGED <<notif, notifiers, stack>>

\* add_notifier_property
Add(o, n, types, destructor, fn) ==
  /\ props' = [props EXCEPT ![o] = <<n>> \o @]
  /\ notif' = [notif EXCEPT ![n] =
       [status |-> "set", types |-> types, destructor |-> destructor, fn |-> fn,
        ran |-> 0, late |-> o # Root /\ state[o] = "dying"]]

\* tal_add_destructor_
TalAddDestructor(o, fn) ==
  /\ AppRuns /\ \E n \in Prop : notif[n].status = "fresh"
  /\ Add(o, NewProp, {"free"}, TRUE, fn)
  /\ UNCHANGED <<state, tree, notifiers, stack>>

\* Mutant: only notifiers without TAL_NOTIFY_FREE are counted.
TalAddNotifierLess(o, fn, types) ==
  /\ AppRuns /\ \E n \in Prop : notif[n].status = "fresh"
  /\ Add(o, NewProp, types, FALSE, fn)
  /\ notifiers' = IF "free" \in types THEN notifiers ELSE notifiers + 1
  /\ UNCHANGED <<state, tree, stack>>

\* tal_add_notifier_
TalAddNotifier(o, fn, types) ==
  /\ AppRuns /\ \E n \in Prop : notif[n].status = "fresh"
  /\ Add(o, NewProp, types, FALSE, fn)
  /\ notifiers' = IF types = {"free"} THEN notifiers ELSE notifiers + 1
  /\ UNCHANGED <<state, tree, stack>>

\* The properties of o with this function; del_notifier_property deletes the
\* first.
Matching(o, fn) == {i \in DOMAIN props[o] : notif[props[o][i]].fn = fn}

\* Mutant: a destructor is taken off the count too.
TalDelNotifierAny(o, fn) ==
  /\ AppRuns
  /\ LET match == Matching(o, fn) IN
     /\ match # {}
     /\ LET n == props[o][Min(match)] IN
        /\ props' = [props EXCEPT ![o] = RemoveAt(@, Min(match))]
        /\ notif' = [notif EXCEPT ![n] = Deleted(@)]
        /\ notifiers' = notifiers - 1
  /\ UNCHANGED <<state, tree, stack>>

\* tal_del_notifier_ and tal_del_destructor_ delete the first property with
\* this function, be it in its own callback.
TalDelNotifier(o, fn) ==
  /\ AppRuns
  /\ LET match == Matching(o, fn) IN
     /\ match # {}
     /\ LET n == props[o][Min(match)] IN
        /\ props' = [props EXCEPT ![o] = RemoveAt(@, Min(match))]
        /\ notif' = [notif EXCEPT ![n] = Deleted(@)]
        /\ notifiers' = IF notif[n].types = {"free"} THEN notifiers ELSE notifiers - 1
  /\ UNCHANGED <<state, tree, stack>>
-----------------------------------------------------------------------------
(* Freeing *)

NewFrame(o) == [obj |-> o, phase |-> "notify", at |-> NoProp]
Enter(o) == <<NewFrame(o)>> \o stack

\* What notify calls for this type, of a list or what is left of it.
Interested(list, type) == {i \in DOMAIN list : type \in notif[list[i]].types}

\* list_del, and del_tree up to its notify.
Unlink(o) ==
  /\ kids' = [kids EXCEPT ![parent[o]] = RemoveFirst(@, o)]
  /\ state' = [state EXCEPT ![o] = "dying"]

\* The parent is told (TAL_NOTIFY_DEL_CHILD) when the object is still in its
\* list, if there is anybody to tell; otherwise del_tree starts at once.
StartFree(o) ==
  /\ AppRuns /\ Len(stack) < MaxDepth
  /\ LET list == props[parent[o]]
         tell == IF notifiers # 0 THEN Interested(list, "del_child") ELSE {}
     IN \/ /\ tell # {}
           /\ stack' = <<[obj |-> o, phase |-> "told", at |-> list[Min(tell)]]>> \o stack
           /\ UNCHANGED <<kids, state>>
        \/ tell = {} /\ Unlink(o) /\ stack' = Enter(o)
  /\ UNCHANGED <<parent, props, notif, notifiers>>

\* Mutant: an object that is being destroyed is not left alone.
TalFreeAgain(o) == state[o] \in {"live", "dying"} /\ StartFree(o)

\* tal_free, up to the first callback.  It does nothing to an object that is
\* being destroyed already.
TalFree(o) == state[o] = "live" /\ StartFree(o)

\* The list from the next pointer of at on.
After(list, at) ==
  IF at = NoProp THEN list
  ELSE SubSeq(list, SelectInSeq(list, LAMBDA n : n = at) + 1, Len(list))

\* The properties that notify has still to look at.
Rest(f) == After(props[f.obj], f.at)

GoesWild == stack' = [stack EXCEPT ![1].phase = "wild"] /\ UNCHANGED <<kids, state>>

\* The callback of TAL_NOTIFY_DEL_CHILD returns: notify reads the next
\* pointer of a property that may be gone, and in the end tal_free unlinks
\* the object, wherever it is now, unless it was freed.
ReturnTold ==
  /\ stack # <<>> /\ Top.phase = "told"
  /\ \/ \E p \in Node :
          /\ Top.at \in ToSet(props[p])
          /\ LET rest == After(props[p], Top.at)
                 tell == Interested(rest, "del_child")
             IN \/ /\ tell # {} /\ stack' = [stack EXCEPT ![1].at = rest[Min(tell)]]
                   /\ UNCHANGED <<kids, state>>
                \/ /\ tell = {} /\ state[Top.obj] = "live" /\ Unlink(Top.obj)
                   /\ stack' = [stack EXCEPT ![1] = NewFrame(Top.obj)]
                \/ tell = {} /\ state[Top.obj] # "live" /\ GoesWild
     \/ (\A p \in Node : Top.at \notin ToSet(props[p])) /\ GoesWild
  /\ UNCHANGED <<parent, props, notif, notifiers>>

\* Mutant: a destructor is not forgotten before it is called.
NotifyKeeps ==
  /\ stack # <<>> /\ Top.phase = "notify"
  /\ \/ /\ Interested(Rest(Top), "free") # {}
        /\ LET n == Rest(Top)[Min(Interested(Rest(Top), "free"))] IN
           /\ stack' = [stack EXCEPT ![1].phase = "call", ![1].at = n]
           /\ notif' = [notif EXCEPT ![n].ran = @ + 1]
     \/ /\ Interested(Rest(Top), "free") = {}
        /\ stack' = [stack EXCEPT ![1].phase = "children", ![1].at = NoProp]
        /\ UNCHANGED notif
  /\ UNCHANGED <<state, tree, props, notifiers>>

\* The loop of notify: a destructor is forgotten before it is called.
Notify ==
  /\ stack # <<>> /\ Top.phase = "notify"
  /\ \/ /\ Interested(Rest(Top), "free") # {}
        /\ LET n == Rest(Top)[Min(Interested(Rest(Top), "free"))] IN
           /\ stack' = [stack EXCEPT ![1].phase = "call", ![1].at = n]
           /\ notif' = [notif EXCEPT ![n].ran = @ + 1,
                          ![n].fn = IF notif[n].destructor THEN NoFn ELSE @]
     \/ /\ Interested(Rest(Top), "free") = {}
        /\ stack' = [stack EXCEPT ![1].phase = "children", ![1].at = NoProp]
        /\ UNCHANGED notif
  /\ UNCHANGED <<state, tree, props, notifiers>>

\* The callback returns, and notify reads p->next: a notifier that deleted
\* itself is gone.
Return ==
  /\ stack # <<>> /\ Top.phase = "call"
  /\ stack' = [stack EXCEPT ![1].phase =
                 IF Top.at \in ToSet(props[Top.obj]) THEN "notify" ELSE "wild"]
  /\ UNCHANGED <<state, tree, props, notif, notifiers>>

\* Mutant: the child stays in the list.
FreeChildKeeps ==
  /\ stack # <<>> /\ Top.phase = "children" /\ kids[Top.obj] # <<>>
  /\ LET c == Head(kids[Top.obj]) IN
     /\ state' = [state EXCEPT ![c] = "dying"]
     /\ stack' = IF state[c] = "dying" THEN stack ELSE Enter(c)
  /\ UNCHANGED <<tree, props, notif, notifiers>>

\* The loop over list_top in del_tree.
FreeChild ==
  /\ stack # <<>> /\ Top.phase = "children" /\ kids[Top.obj] # <<>>
  /\ LET c == Head(kids[Top.obj]) IN
     /\ kids' = [kids EXCEPT ![Top.obj] = Tail(@)]
     /\ state' = [state EXCEPT ![c] = "dying"]
     /\ stack' = IF state[c] = "dying" THEN stack ELSE Enter(c)
  /\ UNCHANGED <<parent, props, notif, notifiers>>

\* The end of del_tree.
FreeSelf ==
  /\ stack # <<>> /\ Top.phase = "children" /\ kids[Top.obj] = <<>>
  /\ state' = [state EXCEPT ![Top.obj] = "freed"]
  /\ parent' = [parent EXCEPT ![Top.obj] = Root]
  /\ notif' = [n \in Prop |->
       IF n \in ToSet(props[Top.obj])
       THEN [notif[n] EXCEPT !.status = "freed", !.fn = NoFn] ELSE notif[n]]
  /\ props' = [props EXCEPT ![Top.obj] = <<>>]
  /\ stack' = Tail(stack)
  /\ UNCHANGED <<kids, notifiers>>

Init ==
  /\ state = [o \in Obj |-> "fresh"]
  /\ notif = [n \in Prop |-> Unused]
  /\ parent = [o \in Obj |-> Root]
  /\ kids = [o \in Obj \cup {Root} |-> <<>>]
  /\ props = [o \in Obj \cup {Root} |-> <<>>]
  /\ notifiers = 0
  /\ stack = <<>>

Calls ==
  \/ \E ctx \in Node : TalAlloc(ctx)
  \/ \E o \in Allocated : TalFree(o) \/ TalSteal(o) \/ TalResize(o)
  \/ \E o \in Allocated, fn \in Fn : TalAddDestructor(o, fn)
  \/ \E o \in Node, fn \in Fn :
       \/ TalDelNotifier(o, fn)
       \/ \E types \in {{"free"}, {"free", "del_child"}, {"del_child"}} : TalAddNotifier(o, fn, types)

DelTree == Notify \/ FreeChild \/ FreeSelf

Next == Calls \/ Return \/ ReturnTold \/ DelTree

(***************************************************************************)
(* tal_free runs on, and callbacks return.                                 *)
(***************************************************************************)
Spec == Init /\ [][Next]_vars /\ WF_vars(Return \/ ReturnTold \/ DelTree)
-----------------------------------------------------------------------------
(* Properties *)

\* The type invariant: the fields of tal_hdr, children and notifier, and a
\* count of notifiers that does not wrap round below 0.
TypeOK ==
  /\ state \in [Obj -> {"fresh", "live", "dying", "freed"}]
  /\ parent \in [Obj -> Obj \cup {Root}]
  /\ kids \in [Obj \cup {Root} -> Seq(Obj)]
  /\ props \in [Obj \cup {Root} -> Seq(Prop)]
  /\ notif \in [Prop -> Notifier]
  /\ notifiers \in Nat
  /\ stack \in Seq([obj : Obj, phase : {"told", "notify", "call", "children", "wild"},
                    at : Prop \cup {NoProp}])

\* tal_check, at every point where a callback can call tal: a live object is
\* in the list of its parent, once, the parent is allocated and the tree has
\* no cycle; the lists hold nothing else.
TreeOK ==
  /\ \A p \in Node :
       IsInjective(kids[p]) /\ \A c \in ToSet(kids[p]) : state[c] = "live" /\ parent[c] = p
  /\ \A o \in Obj \ Allocated : kids[o] = <<>>
  /\ \A o \in Obj : state[o] = "live" => parent[o] \in Node /\ o \in ToSet(kids[parent[o]])
  /\ \A o \in Obj : state[o] = "live" => parent[o] \notin Within(o)

Destroys(f) == f.phase \in {"notify", "call", "children"}

\* What del_tree and notify go on with after a callback is still there:
\* their objects are not freed by anyone else, and the property whose next
\* pointer is read (tal.c:228) is in the list, unless it is a notifier that
\* was deleted while its callback ran.  A destructor may do whatever it
\* likes, delete itself included: only a notifier makes a frame wild.
FramesLive ==
  \A i \in DOMAIN stack :
    /\ Destroys(stack[i]) =>
         /\ state[stack[i].obj] = "dying"
         /\ \A j \in DOMAIN stack :
              i # j /\ Destroys(stack[j]) => stack[i].obj # stack[j].obj
         /\ stack[i].at \notin ToSet(props[stack[i].obj]) \cup {NoProp} =>
              /\ stack[i].phase = "call" /\ notif[stack[i].at].status = "deleted"
              /\ ~notif[stack[i].at].destructor
    /\ stack[i].phase \in {"told", "wild"} =>
         stack[i].at # NoProp /\ ~notif[stack[i].at].destructor

\* Every destructor runs exactly once before its object is freed, unless it
\* is deleted first or was added when the object was being destroyed
\* already; none runs for an object that is not being destroyed (tal.h:65).
DestructorsOnce ==
  \A n \in Prop :
    /\ notif[n].ran <= 1
    /\ notif[n].status = "freed" /\ "free" \in notif[n].types /\ ~notif[n].late =>
         notif[n].ran = 1
    /\ \A o \in Obj : n \in ToSet(props[o]) /\ notif[n].ran = 1 => state[o] = "dying"

\* While somebody is to be told of children, the count of notifiers is not
\* 0: tal_free skips notify only when there is nobody to tell (tal.c:528).
NotifiersCounted ==
  Cardinality({n \in Prop : notif[n].status = "set" /\ "del_child" \in notif[n].types})
    <= notifiers

\* tal_free returns, whatever the destructors allocate, free and move
\* (tal.c:445), if they return and allocate only so much; or a frame went
\* wild.
FreeEnds == stack # <<>> ~> stack = <<>> \/ Top.phase = "wild"
=============================================================================
