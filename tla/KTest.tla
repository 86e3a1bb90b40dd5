------------------------------- MODULE KTest -------------------------------
(***************************************************************************)
(* From one test case of KLEE to the variables a test declares             *)
(* (KTestObjectParser, Tests.cpp): the values of structures and unions     *)
(* (structView and its printing), the lazily instantiated objects that are *)
(* reached from the parameters (assignTypeUnnamedVar), and the pointers    *)
(* that are assigned before the call (assignAllLazyPointers).              *)
(*                                                                         *)
(* Memory is counted in cells: one holds a pointer, a number, or padding.  *)
(* Bit-fields, arrays of structures as parameters, and pointers stored in  *)
(* unions are left out; so are stubs, the result and values after a call.  *)
(***************************************************************************)
EXTENDS Naturals, FiniteSets, SequencesExt

(***************************************************************************)
(* Layout[t]  kind, size; `to` of pointers; of structures and unions the   *)
(*            `fields` [at, type, anonymous], and whether they are `named` *)
(* KTests     params: [object, type]; objects: [lazy, cells, pointers],    *)
(*            where a pointer [at, object, in] leads from cell `at` to     *)
(*            cell `in` of an object.  Cells count from 0.                 *)
(***************************************************************************)
CONSTANTS Layout, KTests, Address(_)    \* of an object

ASSUME KTestAssumption ==
    \A t \in DOMAIN Layout : Layout[t].kind \in {"primitive", "pointer", "array", "void", "grid",
                                                 "struct", "union"}

VARIABLES ktest,       \* the test case, never changed
          phase,
          types,       \* [object] objTypeAndName, "none" at first
          usages, visited, order,
          declared,    \* lazyParams: the lazy variables of the test, in order
          references,  \* lazyReferences, as [from, to] with <<object, cell>>
          ind          \* the object whose pointers are assigned

ktestVars == <<ktest, phase, types, usages, visited, order, declared, references, ind>>

Objects == DOMAIN ktest.objects
Aggregate(t) == Layout[t].kind \in {"struct", "union"}
Cells(a, b) == {c \in a .. b : c < b}
-----------------------------------------------------------------------------
(* Mutant of Gap: padding is not looked at. *)
NoGap(cells, a, b) == FALSE

(* dirtyCheck: something lies between the fields. *)
Gap(cells, a, b) == \E c \in Cells(a, b) : cells[c] # 0

(***************************************************************************)
(* structView.  A union is initialised by its largest field that leaves    *)
(* nothing of it out, the first one of these; a structure by all its       *)
(* fields; one that cannot be is copied from memory as a whole, or, if     *)
(* anonymous or without name, its parent is.                               *)
(***************************************************************************)
RECURSIVE StructView(_, _, _, _)
StructView(t, cells, at, anonymous) ==
    LET fields == Layout[t].fields
        union == Layout[t].kind = "union"
        start(k) == at + fields[k].at
        length(k) == Layout[fields[k].type].size
        end(k) == start(k) + length(k)
        before(k) == IF union \/ k = 1 THEN at ELSE end(k - 1)
        views == [k \in DOMAIN fields |->
            IF Aggregate(fields[k].type)
            THEN StructView(fields[k].type, cells, start(k), fields[k].anonymous)
            ELSE [init |-> TRUE, dirty |-> FALSE]]
        dirty(k) == \/ Gap(cells, before(k), start(k))
                    \/ (union \/ k = Len(fields)) /\ Gap(cells, end(k), at + Layout[t].size)
                    \/ views[k].dirty
        fit == {k \in DOMAIN fields : union /\ ~ dirty(k)}
        largest == {k \in fit : \A l \in fit : length(l) <= length(k)}
        init == IF union THEN fit # {} ELSE \A k \in DOMAIN fields : views[k].init
        copied == ~ init /\ Layout[t].named /\ ~ anonymous
    IN  [init |-> init \/ copied, copied |-> copied,
         dirty |-> ~ union /\ init /\ \E k \in DOMAIN fields : dirty(k),
         chosen |-> {k \in largest : \A l \in largest : k <= l}, views |-> views]

(* The cells whose values are in the text that is printed; the others are 0. *)
RECURSIVE Printed(_, _, _)
Printed(t, view, at) ==
    IF ~ Aggregate(t) \/ (Aggregate(t) /\ view.copied) THEN Cells(at, at + Layout[t].size)
    ELSE UNION {Printed(Layout[t].fields[k].type, view.views[k], at + Layout[t].fields[k].at) :
                  k \in IF Layout[t].kind = "union" THEN view.chosen ELSE DOMAIN Layout[t].fields}

ValueOf(o) ==
    Printed(types[o], IF Aggregate(types[o]) THEN StructView(types[o], ktest.objects[o].cells, 0, FALSE)
                      ELSE [init |-> TRUE], 0)

(* The pointers of an aggregate, as [at, to]. *)
RECURSIVE Slots(_, _)
Slots(t, at) ==
    IF Layout[t].kind = "pointer" THEN {at}
    ELSE IF ~ Aggregate(t) THEN {}
    ELSE UNION {Slots(Layout[t].fields[k].type, at + Layout[t].fields[k].at) : k \in DOMAIN Layout[t].fields}

(***************************************************************************)
(* getLazyPointerView: a pointer KLEE has not recorded as lazy that is the *)
(* address of an object is assigned; the elements of a grid are printed    *)
(* without looking at the objects.                                         *)
(***************************************************************************)
AddressReferences(o, t) ==
    LET ks == ktest.objects[o]
        recorded == {p.at : p \in ToSet(ks.pointers)}
        found == {s \in Slots(t, 0) \ recorded : \E q \in Objects : Address(q) = ks.cells[s]}
    IN  SetToSeq({[from |-> <<o, s>>,
                   to |-> <<CHOOSE q \in Objects : Address(q) = ks.cells[s], 0>>] : s \in found})
-----------------------------------------------------------------------------
(***************************************************************************)
(* getOffsetInStruct: in a parameter that is a pointer to pointers, the    *)
(* element and the offset in it.                                           *)
(***************************************************************************)
getOffsetInStruct(t, offset, usage) ==
    IF Layout[t].kind # "grid" \/ usage # "PARAMETER" THEN [type |-> t, base |-> 0, offset |-> offset]
    ELSE LET size == Layout[Layout[t].to].size
         IN  [type |-> Layout[t].to, base |-> offset - (offset % size), offset |-> offset % size]

(* findFieldIndex: the last field that does not begin after the offset. *)
findFieldIndex(t, offset) ==
    CHOOSE k \in DOMAIN Layout[t].fields :
        /\ Layout[t].fields[k].at <= offset
        /\ \A l \in DOMAIN Layout[t].fields : Layout[t].fields[l].at <= offset => l <= k

Throws == [type |-> "throws", at |-> 0]

(* traverseLazyInStruct: down to a pointer or a number. *)
RECURSIVE traverseLazyInStruct(_, _, _)
traverseLazyInStruct(t, offset, at) ==
    IF Aggregate(t)
    THEN LET f == Layout[t].fields[findFieldIndex(t, offset)]
         IN  traverseLazyInStruct(f.type, offset - f.at, at + f.at)
    ELSE IF Layout[t].kind \in {"pointer", "primitive"} THEN [type |-> t, at |-> at] ELSE Throws

Field(t, offset, usage) ==
    LET o == getOffsetInStruct(t, offset, usage) IN traverseLazyInStruct(o.type, o.offset, o.base)

(* pointToStruct: the object is as large as what the pointer points to. *)
pointToStruct(t, o) ==
    LET cells == ktest.objects[o].cells
    IN  Layout[Layout[t].to].size = Cardinality(DOMAIN cells)

(* The size of void is not known: UnImplementedException. *)
ToVoid(f) == f # Throws /\ Layout[Layout[f.type].to].kind = "void"
-----------------------------------------------------------------------------
KTestInit ==
    /\ ktest \in KTests
    /\ phase = "parameters"
    /\ types = [o \in Objects |-> "none"] /\ usages = [o \in Objects |-> "PARAMETER"]
    /\ visited = {} /\ order = <<>> /\ declared = <<>> /\ references = <<>> /\ ind = 1

(* UnImplementedException, NoSuchTypeException: the test case is left out. *)
SkipCase == phase' = "skipped"

(***************************************************************************)
(* parseTestCaseParams and the loop over addToOrder: a parameter without   *)
(* object is one of no test; a grid is passed on as it is.                 *)
(***************************************************************************)
Parameters ==
    LET ps == ktest.params
    IN  /\ phase = "parameters" /\ phase' = "visit"
        /\ order' = ps /\ visited' = {ps[k].object : k \in DOMAIN ps}
        /\ references' = FlattenSeq([k \in DOMAIN ps |-> AddressReferences(ps[k].object, ps[k].type)])
        /\ UNCHANGED <<ktest, types, usages, declared, ind>>

(* No test is made of a case that misses a parameter, the line or the predicate. *)
NotWanted ==
    /\ phase = "parameters" /\ SkipCase
    /\ UNCHANGED <<ktest, types, usages, visited, order, declared, references, ind>>

(* Mutant of Follows: the first pointer decides, whatever size it points to. *)
FollowsAny(p, f) == TRUE

(* A pointer to an object as a whole gives it its type. *)
Follows(p, f) == pointToStruct(f.type, p.object)

(* The first pointer that leads to an object, in the order of the queue. *)
Discovered(o, t) ==
    LET ps == ktest.objects[o].pointers
        field(p) == Field(t, p.at, usages[p.object])
        new(k) == /\ ps[k].in = 0 /\ ps[k].object \notin visited
                  /\ Follows(ps[k], field(ps[k]))
        firsts == {k \in DOMAIN ps : new(k) /\ \A l \in 1 .. (k - 1) :
                                       new(l) => ps[l].object # ps[k].object}
    IN  [k \in 1 .. Cardinality(firsts) |->
            LET p == ps[SetToSortSeq(firsts, <)[k]]
            IN  [object |-> p.object, type |-> Layout[field(p).type].to]]

RECURSIVE BaseKind(_)
BaseKind(t) == IF Layout[t].kind \in {"pointer", "grid"} THEN BaseKind(Layout[t].to) ELSE Layout[t].kind

(* assignTypeUnnamedVar, the object at the head of the queue. *)
Visit ==
    LET o == Head(order).object
        t == Head(order).type
        lazy == ktest.objects[o].lazy
        ps == ktest.objects[o].pointers
        throws == \/ lazy /\ BaseKind(t) = "void"
                  \/ \E p \in ToSet(ps) :
                        LET f == Field(t, p.at, usages[p.object]) IN p.in = 0 /\ (f = Throws \/ ToVoid(f))
    IN  /\ phase = "visit" /\ order # <<>>
        /\ types' = [types EXCEPT ![o] = t]
        /\ IF throws
           THEN SkipCase /\ UNCHANGED <<usages, visited, order, declared, references>>
           ELSE /\ usages' = IF lazy THEN [usages EXCEPT ![o] = "LAZY"] ELSE usages
                /\ declared' = IF lazy THEN Append(declared, o) ELSE declared
                /\ references' = IF lazy THEN references \o AddressReferences(o, t) ELSE references
                /\ order' = Tail(order) \o Discovered(o, t)
                /\ visited' = visited \cup {d.object : d \in ToSet(Discovered(o, t))}
                /\ UNCHANGED phase
        /\ UNCHANGED <<ktest, ind>>

Visited ==
    /\ phase = "visit" /\ order = <<>> /\ phase' = "assign"
    /\ UNCHANGED <<ktest, types, usages, visited, order, declared, references, ind>>

Inside(p) == getOffsetInStruct(types[p.object], p.in, usages[p.object])
Whole(p, t) == Inside(p).offset = 0 /\ pointToStruct(t, p.object)

(* The variable or field a pointer is assigned. *)
GoalField(p) == Field(types[p.object], p.in, usages[p.object])
Goal(p, t) == <<p.object, IF Whole(p, t) THEN Inside(p).base ELSE GoalField(p).at>>

(* assignAllLazyPointers, the pointers of one object. *)
Assign ==
    LET ps == ktest.objects[ind].pointers
        from(p) == Field(types[ind], p.at, usages[ind])
        known(p) == types[p.object] # "none"
        throws == \E p \in ToSet(ps) :
            \/ from(p) = Throws
            \/ known(p) /\ IF Inside(p).offset = 0 /\ ToVoid(from(p)) THEN TRUE
                           ELSE ~ Whole(p, from(p).type) /\ GoalField(p) = Throws
        assigned == SelectSeq(ps, known)
    IN  /\ phase = "assign" /\ ind \in Objects
        /\ IF types[ind] = "none" THEN UNCHANGED <<phase, references>>
           ELSE IF throws THEN SkipCase /\ UNCHANGED references
           ELSE /\ references' = references \o
                      [k \in DOMAIN assigned |->
                         [from |-> <<ind, from(assigned[k]).at>>,
                          to |-> Goal(assigned[k], from(assigned[k]).type)]]
                /\ UNCHANGED phase
        /\ ind' = ind + 1
        /\ UNCHANGED <<ktest, types, usages, visited, order, declared>>

Finish ==
    /\ phase = "assign" /\ ind \notin Objects /\ phase' = "done"
    /\ UNCHANGED <<ktest, types, usages, visited, order, declared, references, ind>>

KTestNext == Parameters \/ NotWanted \/ Visit \/ Visited \/ Assign \/ Finish
KTestSpec == KTestInit /\ [][KTestNext]_ktestVars
-----------------------------------------------------------------------------
Reached == {o \in Objects : types[o] # "none"}

(* The cells a program can read; any of a union's. *)
RECURSIVE Readable(_, _)
Readable(t, at) ==
    CASE Layout[t].kind \in {"pointer", "grid"} -> {}
      [] Layout[t].kind = "struct" ->
           UNION {Readable(Layout[t].fields[k].type, at + Layout[t].fields[k].at) : k \in DOMAIN Layout[t].fields}
      [] OTHER -> Cells(at, at + Layout[t].size)

(***************************************************************************)
(* The variables of a test hold what KLEE has found: whatever lies in the  *)
(* padding of their structures, no member of a structure and no byte of a  *)
(* union is lost when they are printed field by field.                     *)
(***************************************************************************)
ValuesAreReproduced ==
    phase = "done" =>
        \A o \in Reached : \A c \in Readable(types[o], 0) :
            ktest.objects[o].cells[c] # 0 => c \in ValueOf(o)

(***************************************************************************)
(* Before the call every pointer of a variable points to where it points   *)
(* in the test case, and is assigned once; the other ones are null.  What  *)
(* a test refers to is a parameter or is declared, once.                   *)
(***************************************************************************)
Pointers(o) ==
    {[from |-> <<o, p.at>>, to |-> <<p.object, p.in>>] : p \in ToSet(ktest.objects[o].pointers)}
Stored(o) ==
    {[from |-> <<o, s>>, to |-> <<q, 0>>] :
        s \in Slots(types[o], 0) \ {p.at : p \in ToSet(ktest.objects[o].pointers)}, q \in Objects}

PointersAreReproduced ==
    phase = "done" =>
        /\ \A i, j \in DOMAIN references : references[i].from = references[j].from => i = j
        /\ ToSet(references) =
              UNION {Pointers(o) \cup {r \in Stored(o) : ktest.objects[o].cells[r.from[2]] = Address(r.to[1])} :
                       o \in Reached}
        /\ \A o \in Reached : ktest.objects[o].lazy => o \in ToSet(declared)
        /\ \A r \in ToSet(references) : r.to[1] \in Reached
        /\ Len(declared) = Cardinality(ToSet(declared))

(* Both: what a test case of KLEE holds is what the test starts from. *)
ObjectsAreReproduced == ValuesAreReproduced /\ PointersAreReproduced
=============================================================================
