-------------------------------- MODULE Urc --------------------------------
(***************************************************************************)
(* The URCs of the modem: the table of handlers that components add to the *)
(* AT client (At::addUrc, at_obj_set_urc_table), the parser that looks     *)
(* every line up in it (get_urc_obj), and the handler that the URC builder *)
(* makes of a callback (net/at_urc_builder.hxx), which splits the line and *)
(* reads one field for each parameter.  The parser has a higher priority   *)
(* than the threads that add: it steps between any two of their steps, and *)
(* from the end of a line to the return of the callback they do not run.   *)
(* There is no lock.                                                       *)
(***************************************************************************)
EXTENDS Integers, Sequences, FiniteSets

CONSTANTS
    Adders,   \* the threads that make components
    Types,    \* the component types with URCs
    Urcs,     \* Urcs[T]: the prefixes that T handles
    Nothing,  \* an entry of zeros, and a thread without a type to add
    Junk,     \* an entry whose bytes nobody wrote
    Lines     \* bound: [prefix, pieces]; pieces are what stands between commas

\* The parameters of the callbacks that take fields (devices/air302/http.hxx,
\* mqtt_factory.cxx).
Params == [HTTPRESPC |-> <<"emitter", "flow", "int", "int", "int", "text">>,
           ECMTRECV  |-> <<"flow", "int", "text", "text">>,
           ECMTCONN  |-> <<"flow", "int", "int">>]

ASSUME UrcAssumption ==
    /\ Urcs \in [Types -> SUBSET DOMAIN Params]
    /\ Nothing \notin Types /\ Junk \notin Types /\ Nothing # Junk
    /\ \A l \in Lines : l.prefix \in DOMAIN Params /\ l.pieces \in Seq(STRING) \ {<<>>}

VARIABLES
    heap,     \* the blocks that were a table: whether allocated, and the entries
    table,    \* urc_table: a block, or 0 for RT_NULL
    size,     \* urc_table_size
    pc,       \* where a thread is in at_obj_set_urc_table
    want,     \* want[a]: the type it adds
    old,      \* old[a]: old_urc_table
    new,      \* new[a]: the block that rt_realloc returns
    order,    \* the order in which the build evaluates a pack expansion
    got,      \* the line in the parser's hands, what becomes of it, and the
              \* arguments of the callback
    tried,    \* the types whose init has called addUrc
    done,     \* history: the types whose addition has returned RT_EOK
    overlap,  \* history: two threads were in at_obj_set_urc_table at a time
    lost      \* history: rt_realloc found no memory

client == <<heap, table, size>>
adder == <<pc, want, old, new>>
vars == <<client, adder, order, got, tried, done, overlap, lost>>

\* The parser waits for characters.
Waiting == [outcome |-> "none"]

Outcomes == {"none", "torn", "ignored", "garbage", "thrown", "handled"}

Init ==
    /\ heap = <<>> /\ table = 0 /\ size = 0
    /\ pc = [a \in Adders |-> "idle"]
    /\ want = [a \in Adders |-> Nothing]
    /\ old = [a \in Adders |-> <<>>]
    /\ new = [a \in Adders |-> 0]
    /\ order \in {"leftToRight", "rightToLeft"}
    /\ got = Waiting
    /\ tried = {} /\ done = {} /\ overlap = FALSE /\ lost = FALSE

\* The i-th entry as it is read: behind the block, and at RT_NULL, lies junk.
Entry(i) ==
    IF table # 0 /\ i <= Len(heap[table].entries) THEN heap[table].entries[i] ELSE Junk

\* Entry i is written, if it is in a block.
Written(h, i, e) ==
    IF table # 0 /\ i <= Len(h[table].entries) THEN [h EXCEPT ![table].entries[i] = e]
                                               ELSE h

-----------------------------------------------------------------------------
(* at_obj_set_urc_table *)

Enter(a, T) ==
    /\ pc[a] = "idle" /\ T \notin tried
    /\ want' = [want EXCEPT ![a] = T]
    /\ tried' = tried \cup {T}
    /\ overlap' = (overlap \/ \E b \in Adders : pc[b] # "idle")
    /\ pc' = [pc EXCEPT ![a] = IF size = 0 THEN "calloc" ELSE "malloc"]
    /\ UNCHANGED <<client, old, new, order, got, done, lost>>

Leave(a) ==
    /\ pc' = [pc EXCEPT ![a] = "idle"]
    /\ want' = [want EXCEPT ![a] = Nothing]
    /\ old' = [old EXCEPT ![a] = <<>>]
    /\ new' = [new EXCEPT ![a] = 0]

\* The first table.
Calloc(a) ==
    /\ pc[a] = "calloc"
    /\ heap' = Append(heap, [allocated |-> TRUE, entries |-> <<Nothing>>])
    /\ table' = Len(heap')
    /\ pc' = [pc EXCEPT ![a] = "first"]
    /\ UNCHANGED <<size, want, old, new, order, got, tried, done, overlap, lost>>

First(a) ==
    /\ pc[a] = "first"
    /\ heap' = Written(heap, 1, want[a])
    /\ size' = size + 1
    /\ done' = done \cup {want[a]}
    /\ Leave(a)
    /\ UNCHANGED <<table, order, got, tried, overlap, lost>>

\* rt_calloc or rt_malloc finds no memory; addUrc ignores what is returned.
NoMemory(a) ==
    /\ pc[a] \in {"calloc", "malloc"}
    /\ table' = IF pc[a] = "calloc" THEN 0 ELSE table
    /\ Leave(a)
    /\ UNCHANGED <<heap, size, order, got, tried, done, overlap, lost>>

\* old_urc_table becomes a copy of the table.
Copy(a) ==
    /\ pc[a] = "malloc"
    /\ old' = [old EXCEPT ![a] = [i \in 1 .. size |-> Entry(i)]]
    /\ pc' = [pc EXCEPT ![a] = "realloc"]
    /\ UNCHANGED <<client, want, new, order, got, tried, done, overlap, lost>>

\* Mutant: the table is not made larger.
GrownByNothing(n) == [i \in 1 .. n |-> Entry(i)]

\* The entries of the table after it was reallocated.
Grown(n) == [i \in 1 .. n + 1 |-> IF i <= n THEN Entry(i) ELSE Junk]

\* rt_realloc frees the table after it was copied to a larger block ...
Realloc(a) ==
    /\ pc[a] = "realloc"
    /\ heap' = Append(IF table = 0 THEN heap ELSE [heap EXCEPT ![table].allocated = FALSE],
                      [allocated |-> TRUE, entries |-> Grown(Len(old[a]))])
    /\ new' = [new EXCEPT ![a] = Len(heap')]
    /\ pc' = [pc EXCEPT ![a] = "moving"]
    /\ UNCHANGED <<table, size, want, old, order, got, tried, done, overlap, lost>>

\* ... or finds that the block is as large already ...
ReallocInPlace(a) ==
    /\ pc[a] = "realloc" /\ table # 0
    /\ heap' = [heap EXCEPT ![table].entries = Grown(Len(old[a]))]
    /\ new' = [new EXCEPT ![a] = table]
    /\ pc' = [pc EXCEPT ![a] = "moving"]
    /\ UNCHANGED <<table, size, want, old, order, got, tried, done, overlap, lost>>

\* ... or finds no memory: the table is not freed, and the client has lost it.
ReallocFails(a) ==
    /\ pc[a] = "realloc"
    /\ table' = 0
    /\ lost' = TRUE
    /\ Leave(a)
    /\ UNCHANGED <<heap, size, order, got, tried, done, overlap>>

\* urc_table is assigned only now.
Assign(a) ==
    /\ pc[a] = "moving"
    /\ table' = new[a]
    /\ pc' = [pc EXCEPT ![a] = "append"]
    /\ UNCHANGED <<heap, size, want, old, new, order, got, tried, done, overlap, lost>>

\* Mutant: the new entry takes the place of the last one.
AppendOverLast(a) ==
    /\ pc[a] = "append"
    /\ heap' = Written(heap, size, want[a])
    /\ size' = size + 1
    /\ done' = done \cup {want[a]}
    /\ Leave(a)
    /\ UNCHANGED <<table, order, got, tried, overlap, lost>>

\* The old entries and, behind them, the new one.
FillIn(a) ==
    /\ pc[a] = "append"
    /\ heap' = IF table = 0 THEN heap
               ELSE Written([heap EXCEPT ![table].entries =
                                [i \in DOMAIN @ |-> IF i <= Len(old[a]) THEN old[a][i]
                                                                        ELSE @[i]]],
                            size + 1, want[a])
    /\ size' = size + 1
    /\ done' = done \cup {want[a]}
    /\ Leave(a)
    /\ UNCHANGED <<table, order, got, tried, overlap, lost>>

-----------------------------------------------------------------------------
(* The handler that the builder makes *)

Consumes(kind) == kind # "emitter"

\* split(str, ',', n): at most n commas separate fields.
Split(pieces, n) ==
    IF Len(pieces) <= n + 1 THEN [i \in 1 .. Len(pieces) |-> <<pieces[i]>>]
    ELSE [i \in 1 .. n + 1 |-> IF i <= n THEN <<pieces[i]>>
                                         ELSE SubSeq(pieces, n + 1, Len(pieces))]

\* Mutant: the emitter takes a field as well.
IndexWithEmitter(params, k) == IF order = "leftToRight" THEN k ELSE Len(params) + 1 - k

\* ArgProvider: the index of the field that parameter k reads, one more than the
\* number of the fields taken before.
Index(params, k) ==
    1 + Cardinality({j \in 1 .. Len(params) :
                        /\ Consumes(params[j])
                        /\ IF order = "leftToRight" THEN j < k ELSE j > k})

Numbers == {"0", "1"}

\* What parameter k makes of the fields: a field that is not there, a number that
\* was not parsed, and a slot that is none of the component's are garbage.
IsGarbage(params, fields, k) ==
    LET i == Index(params, k) IN
    IF i > Len(fields) THEN TRUE
    ELSE \/ params[k] = "int" /\ Head(fields[i]) \notin Numbers
         \/ params[k] = "flow" /\ Head(fields[i]) # "0"

\* What parameter k gets: a text whole, of a number what stands before a comma.
Argument(params, fields, k) ==
    CASE params[k] = "emitter" -> <<>>
      [] params[k] = "text"    -> fields[Index(params, k)]
      [] OTHER                 -> <<Head(fields[Index(params, k)])>>

\* runProbe, where the flow of slot 0 exists or has expired.
Handled(line, alive) ==
    LET params == Params[line.prefix]
        fields == Split(line.pieces, Len(params) - 1)
    IN  IF \E k \in 1 .. Len(params) : IsGarbage(params, fields, k)
        THEN [outcome |-> "garbage", line |-> line]
        ELSE IF ~alive THEN [outcome |-> "thrown", line |-> line]
        ELSE [outcome |-> "handled", line |-> line,
              args |-> [k \in 1 .. Len(params) |-> Argument(params, fields, k)]]

-----------------------------------------------------------------------------
(* The parser *)

\* An entry that get_urc_obj reads is in freed memory, outside the table, or junk.
Torn ==
    /\ table # 0
    /\ \/ size > 0 /\ ~heap[table].allocated
       \/ \E i \in 1 .. size : Entry(i) = Junk

Listed(prefix) ==
    /\ table # 0
    /\ \E i \in 1 .. size : Entry(i) \in Types /\ prefix \in Urcs[Entry(i)]

\* client_parser has a line: a URC is handled, all else is not the builder's.
Line(line, alive) ==
    /\ got = Waiting
    /\ got' = IF Torn THEN [outcome |-> "torn"]
              ELSE IF Listed(line.prefix) THEN Handled(line, alive)
              ELSE [outcome |-> "ignored", line |-> line]
    /\ UNCHANGED <<client, adder, order, tried, done, overlap, lost>>

\* The handler returns, and the parser waits.
Return ==
    /\ got # Waiting
    /\ got' = Waiting
    /\ UNCHANGED <<client, adder, order, tried, done, overlap, lost>>

-----------------------------------------------------------------------------
Next ==
    \/ /\ got = Waiting
       /\ \E a \in Adders :
              \/ \E T \in Types : Enter(a, T)
              \/ Calloc(a) \/ First(a) \/ NoMemory(a) \/ Copy(a) \/ Realloc(a)
              \/ ReallocInPlace(a) \/ ReallocFails(a) \/ Assign(a) \/ FillIn(a)
    \/ \E line \in Lines, alive \in BOOLEAN : Line(line, alive)
    \/ Return

Spec == Init /\ [][Next]_vars

-----------------------------------------------------------------------------
Places == {"idle", "calloc", "first", "malloc", "realloc", "moving", "append"}
Entries == Types \cup {Nothing, Junk}

TypeOK ==
    /\ heap \in Seq([allocated : BOOLEAN, entries : Seq(Entries)])
    /\ table \in 0 .. Len(heap) /\ size \in Nat
    /\ pc \in [Adders -> Places] /\ want \in [Adders -> Types \cup {Nothing}]
    /\ old \in [Adders -> Seq(Entries)]
    /\ new \in [Adders -> Nat] /\ \A a \in Adders : new[a] <= Len(heap)
    /\ order \in {"leftToRight", "rightToLeft"}
    /\ got.outcome \in Outcomes
    /\ tried \subseteq Types /\ done \subseteq tried
    /\ overlap \in BOOLEAN /\ lost \in BOOLEAN

\* The parser reads no entry that is freed, missing or not written, except while
\* rt_realloc has freed the table and urc_table is not yet assigned, after two
\* threads have added at the same time, or after rt_realloc has failed
\* (rt-thread/components/net/at/src/at_client.c:575-585, 645-655).
TornNeedsCause ==
    Torn => \/ \E a \in Adders : pc[a] = "moving"
            \/ overlap
            \/ lost

\* A type that was added stays in the table, whatever is added later and whether
\* or not there is memory for it, except that a failing rt_realloc, or two threads
\* at the same time, lose it (at_client.c:551-588).
AddedIsListed ==
    overlap \/ lost \/ \A T \in done : \E i \in 1 .. size : Entry(i) = T

\* The fields that parameter k of a callback is meant to get: those before the last
\* parameter one each, a last text all the rest, with its commas.
Own(params, pieces, k) ==
    LET n == Cardinality({j \in 1 .. k : Consumes(params[j])}) IN
    IF ~Consumes(params[k]) THEN <<>>
    ELSE IF k = Len(params) /\ params[k] = "text" THEN SubSeq(pieces, n, Len(pieces))
    ELSE <<pieces[n]>>

\* What the modem sends: the flow's slot, numbers where the callback has numbers,
\* no field too few; and no comma in the hexadecimal body of an HTTP response.
WellFormed(line) ==
    LET params == Params[line.prefix]
        n == Cardinality({j \in 1 .. Len(params) : Consumes(params[j])})
    IN  /\ Len(line.pieces) >= n
        /\ line.prefix = "HTTPRESPC" => Len(line.pieces) = n
        /\ \A k \in 1 .. Len(params) :
               /\ params[k] = "flow" => Head(Own(params, line.pieces, k)) = "0"
               /\ params[k] = "int" => Head(Own(params, line.pieces, k)) \in Numbers

\* A well-formed line of a type in the table never makes the handler read past the
\* fields, use an unparsed number or index a foreign slot, and the callback gets
\* each field in its own parameter, a payload with all its commas - if the build
\* evaluates the pack expansion from left to right, which C++ does not promise
\* (net/at_urc_builder.hxx:268-295, 316-322; utilities/string.cxx:4-15).
FieldsFindParameters ==
    /\ order = "leftToRight" /\ got.outcome \in {"garbage", "handled"}
    /\ WellFormed(got.line)
    =>      /\ got.outcome = "handled"
            /\ \A k \in DOMAIN got.args :
                   got.args[k] = Own(Params[got.line.prefix], got.line.pieces, k)
=============================================================================
