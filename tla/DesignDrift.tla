---------------------------- MODULE DesignDrift ----------------------------
(***************************************************************************)
(* The drift reports (src/handlers/design_catalogue.py).  What a blueprint *)
(* uses is a copy of an item of the design catalogue; a report reads the   *)
(* copies out of the graph of the blueprint, then, a request later, the    *)
(* catalogue, and compares the two.  Configlets are matched by display     *)
(* name, property sets by their id; both sides can be edited meanwhile.    *)
(***************************************************************************)
EXTENDS Integers, FiniteSets, Sequences

CONSTANTS
  Copies,       \* nodes of the blueprint graph
  Items,        \* ids of catalogue items, in the order the catalogue lists them
  Keys,         \* display names, or property set ids
  Contents,     \* what an item can hold: the sequence of its generators' texts
  NoKey,        \* a payload that does not parse has no name
  Missing,      \* no such copy or item
  MaxEdits      \* bound on the edits while the model runs

ASSUME DriftAssumption ==
  /\ Items \subseteq Nat /\ IsFiniteSet(Items)
  /\ \A a \in Contents : a = [k \in DOMAIN a |-> a[k]]
  /\ MaxEdits \in Nat

VARIABLES
  copies,       \* copies[c]: [key, content] in the blueprint, or Missing
  catalogue,    \* catalogue[n]: [key, content] in the catalogue, or Missing
  seen,         \* the copies a report in progress has read, or Missing
  moments,      \* the states <<copies, catalogue>> since that report began
  report,       \* the last report, or Missing
  edits         \* number of edits so far

driftVars == <<copies, catalogue, seen, moments, report, edits>>

Entry == [key : Keys \cup {NoKey}, content : Contents]
Present(f) == {x \in DOMAIN f : f[x] # Missing}

\* Mutation: generators beyond the shorter list are not compared.
SameGeneratorsZip(a, b) == \A k \in DOMAIN a \cap DOMAIN b : a[k] = b[k]

\* _compare_generators: position by position to the end of the longer list.
\* A single text that is None compares equal to a missing one; texts are strings.
SameGenerators(a, b) ==
  \A k \in DOMAIN a \cup DOMAIN b :
    k \in DOMAIN a \cap DOMAIN b /\ a[k] = b[k]

\* The catalogue as a dictionary: the last item of a name is the one found,
\* and items without a name are not in it.
Named(cat) == {cat[n].key : n \in Present(cat)} \ {NoKey}
Found(cat, key) ==
  CHOOSE n \in Present(cat) :
    cat[n].key = key /\ \A m \in Present(cat) : cat[m].key = key => m <= n

\* The comparison of the copies seen with the catalogue just read.
Compared(cps, cat) ==
  LET matched == {c \in Present(cps) : cps[c].key \in Named(cat)}
  IN  [drift   |-> [c \in matched |->
                      ~ SameGenerators(cps[c].content, cat[Found(cat, cps[c].key)].content)],
       only    |-> Present(cps) \ matched,
       unused  |-> Named(cat) \ {cps[c].key : c \in matched}]
-----------------------------------------------------------------------------
DriftInit ==
  /\ copies \in [Copies -> Entry \cup {Missing}]
  /\ catalogue \in [Items -> Entry \cup {Missing}]
  /\ seen = Missing
  /\ moments = {}
  /\ report = Missing
  /\ edits = 0

\* The graph is queried and its rows are parsed.
ReadCopies ==
  /\ seen = Missing
  /\ seen' = copies
  /\ moments' = {<<copies, catalogue>>}
  /\ report' = Missing
  /\ UNCHANGED <<copies, catalogue, edits>>

\* The catalogue answers, and the report is made.
ReadCatalogue ==
  /\ seen # Missing
  /\ report' = Compared(seen, catalogue)
  /\ seen' = Missing
  /\ UNCHANGED <<copies, catalogue, moments, edits>>

\* The request fails: the result of this instance is an error.
CatalogueFails ==
  /\ seen # Missing
  /\ seen' = Missing
  /\ moments' = {}
  /\ UNCHANGED <<copies, catalogue, report, edits>>

\* Somebody edits the blueprint, or the catalogue, while a report waits.  An
\* edit at another time gives one more initial state.
Changed ==
  /\ seen # Missing
  /\ edits < MaxEdits
  /\ edits' = edits + 1
  /\ moments' = moments \cup {<<copies', catalogue'>>}
  /\ UNCHANGED <<seen, report>>

EditCopy ==
  /\ \E c \in Copies, e \in Entry \cup {Missing} :
       e # copies[c] /\ copies' = [copies EXCEPT ![c] = e]
  /\ UNCHANGED catalogue
  /\ Changed

EditItem ==
  /\ \E n \in Items, e \in Entry \cup {Missing} :
       e # catalogue[n] /\ catalogue' = [catalogue EXCEPT ![n] = e]
  /\ UNCHANGED copies
  /\ Changed

DriftNext == ReadCopies \/ ReadCatalogue \/ CatalogueFails \/ EditCopy \/ EditItem

DriftSpec == DriftInit /\ [][DriftNext]_driftVars
-----------------------------------------------------------------------------
\* The copies and the catalogue of a moment, said without the code's
\* dictionary: for a name the catalogue has once.
InDrift(m, c) ==
  \E n \in Present(m[2]) : m[2][n].key = m[1][c].key /\ m[2][n].content # m[1][c].content

Unique(m, key) == Cardinality({n \in Present(m[2]) : m[2][n].key = key}) = 1

\* A report is true of one moment of its call, although it reads its two sides
\* at two moments: what it says has drifted has drifted, what it says has not
\* has not, and no copy and no name of the catalogue is left out.  With two
\* edits during the call this fails (README.md), so it is stated for one.
DriftHonest ==
  report # Missing =>
    \/ Cardinality(moments) > 2
    \/ \E m \in moments :
         /\ \A c \in Present(m[1]) :
              Unique(m, m[1][c].key) /\ m[1][c].key # NoKey =>
                c \in DOMAIN report.drift /\ report.drift[c] = InDrift(m, c)
         /\ DOMAIN report.drift \cup report.only = Present(m[1])
         /\ report.unused = Named(m[2]) \ {m[1][c].key : c \in DOMAIN report.drift}
=============================================================================
