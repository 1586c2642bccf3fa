----------------------------- MODULE Converter -----------------------------
(***************************************************************************)
(* The replay converter, torikuru_t::Convert (src/src/torikuru.cc:353-537).*)
(* It reads the archive twice. Pass 1 collects every field name of every   *)
(* decodable, unfiltered frame into an unordered_set, copies the set into  *)
(* the column vector in the set's iteration order, gives each column an    *)
(* index in fid_map after the four fixed columns, and writes the header to *)
(* every service file. Pass 2 re-reads the archive and writes one row per  *)
(* frame to the file of the frame's service.                               *)
(*                                                                         *)
(* A frame is a record of what the decoder sees: which identifying fields  *)
(* are present, the payload's field names (and those whose value does not  *)
(* convert to text), whether the protobuf parse and the TibMsg unpack      *)
(* succeed, and, for a parse that fails inside the record, how many of the *)
(* following records the reader loses before it is aligned on a record    *)
(* boundary again (the reader is not skipped to the pushed limit: the next *)
(* ReadVarint32 starts where the parser stopped). Both passes read the     *)
(* same bytes, so a frame's outcome is the same in both. A row is a        *)
(* sequence of cells; each cell names the source whose value it holds      *)
(* ("service", "symbol", "time", "type" or a field name), "" when empty.   *)
(***************************************************************************)
EXTENDS Integers, Sequences, FiniteSets, SequencesExt, Config

CONSTANTS
    Services,     \* service names that occur in frames
    Items,        \* item names that occur in frames
    FieldNames,   \* payload field names
    NoName,       \* an absent service_name / item_name
    Frames,       \* the frame shapes an archive is made of
    MaxFrames     \* bound on the archive length

(* Convert runs on the configuration Init parsed (Config): --input-path   *)
(* is given and Init got past the session URLs. Every service of          *)
(* config_.sessions gets an output file in service_map; config_.instruments *)
(* fill symbol_set, the filter, which stays empty when there are none.     *)
OutServices == {Configured[i].service_name : i \in DOMAIN Configured}
SymbolSet == ToSet(Instruments)

FixedNames == <<"service", "symbol", "time", "type">>

FrameType ==
    [svc : Services \cup {NoName}, item : Items \cup {NoName},
     typed : BOOLEAN, fields : SUBSET FieldNames, unconv : SUBSET FieldNames,
     parse : {"ok", "end", "mid"}, unpack : BOOLEAN, lost : 0..MaxFrames]

(* At most one payload field shares a fixed column's name, so the order of *)
(* the writes to column 0 within one row does not matter.                  *)
ASSUME /\ HasSwitch("input-path") /\ ~LogNameFault(SessionUrls)
       /\ OutServices \subseteq Services /\ SymbolSet \subseteq Items
       /\ Frames \subseteq FrameType /\ NoName \notin Services \cup Items
       /\ Cardinality(FieldNames \cap {"service", "symbol", "time", "type"}) <= 1

Archives == UNION {[1..n -> Frames] : n \in 0..MaxFrames}

VARIABLES
    archive,  \* the input file: the frames in order
    pass,     \* "pass1", "pass2", "done", or "fault" (undefined behaviour reached)
    pos,      \* index of the next record the reader will decode
    fids,     \* pass 1's unordered_set of field names
    columns,  \* the column vector copied from fids
    fault,    \* which undefined behaviour ended the run
    rows      \* per output service: the rows written, as [at, cells]

vars == <<archive, pass, pos, fids, columns, fault, rows>>

(* Reading a record: ReadVarint32, PushLimit, ParseFromCodedStream,        *)
(* PopLimit. After a parse failing inside the record the reader resumes    *)
(* r.lost records further on (or meets the end of the file).               *)
ResumeSkippingNext(r, p) == IF r.parse = "ok" THEN p + 1 ELSE p + 2 + r.lost

ResumeAfter(r, p) == IF r.parse = "mid" THEN p + 1 + r.lost ELSE p + 1

(* The symbol filter: an item name that is not in a non-empty symbol set.  *)
Filtered(r) == r.item # NoName /\ SymbolSet # {} /\ r.item \notin SymbolSet

(* is_valid && msg.UnPack(...) == TIBMSG_OK *)
Decoded(r) == r.parse = "ok" /\ r.unpack

Init ==
    /\ archive \in Archives
    /\ pass = "pass1"
    /\ pos = 1
    /\ fids = {}
    /\ columns = <<>>
    /\ fault = "none"
    /\ rows = [s \in OutServices |-> <<>>]

(* One iteration of the pass 1 loop. *)
Pass1Read ==
    /\ pass = "pass1"
    /\ pos <= Len(archive)
    /\ LET r == archive[pos] IN
         /\ fids' = IF ~Filtered(r) /\ Decoded(r) THEN fids \cup r.fields ELSE fids
         /\ pos' = ResumeAfter(r, pos)
    /\ UNCHANGED <<archive, pass, columns, fault, rows>>

(* fid_map: the fixed names at index 0, then column j (1-based) at index   *)
(* 3 + j; i is incremented even when the emplace finds the name present.   *)
FidMapFromSizeMinusOne(cols) ==
    [n \in {FixedNames[j] : j \in 1..4} \cup ToSet(cols) |->
        IF n \in {FixedNames[j] : j \in 1..4} THEN 0
        ELSE 2 + SelectInSeq(cols, LAMBDA c : c = n)]

FidMapPreIncrement(cols) ==
    [n \in {FixedNames[j] : j \in 1..4} \cup ToSet(cols) |->
        IF n \in {FixedNames[j] : j \in 1..4} THEN 0
        ELSE 4 + SelectInSeq(cols, LAMBDA c : c = n)]

FidMapOf(cols) ==
    [n \in {FixedNames[j] : j \in 1..4} \cup ToSet(cols) |->
        IF n \in {FixedNames[j] : j \in 1..4} THEN 0
        ELSE 3 + SelectInSeq(cols, LAMBDA c : c = n)]

fidMap == FidMapOf(columns)

(* The header line "service,symbol,time,type," followed by the joined      *)
(* columns, split into its fields: no columns leaves one empty field.      *)
HeaderCells ==
    FixedNames \o (IF columns = <<>> THEN <<"">> ELSE columns)

(* ReadVarint32 fails: the end of pass 1. The unordered_set is copied in   *)
(* its iteration order, which is not the order the names were first seen;  *)
(* the header goes to every service file and the reader is rewound.        *)
EndPass1 ==
    /\ pass = "pass1"
    /\ pos > Len(archive)
    /\ \E cols \in SetToSeqs(fids) : columns' = cols
    /\ pass' = "pass2"
    /\ pos' = 1
    /\ UNCHANGED <<archive, fids, fault, rows>>

(* The row of a frame: the fixed cells, then every converted field at its  *)
(* fid_map index. An index past the vector's end is undefined behaviour.  *)
RowOfZeroBased(r) ==
    [j \in 0..(Cardinality(DOMAIN fidMap) - 1) |->
        LET writers == {f \in r.fields \ r.unconv :
                            f \in DOMAIN fidMap /\ fidMap[f] = j}
        IN IF writers # {} THEN CHOOSE f \in writers : TRUE
           ELSE IF j < 4 THEN FixedNames[j + 1] ELSE ""]

RowOf(r) ==
    [j \in 1..Cardinality(DOMAIN fidMap) |->
        LET writers == {f \in r.fields \ r.unconv :
                            f \in DOMAIN fidMap /\ fidMap[f] = j - 1}
        IN IF writers # {} THEN CHOOSE f \in writers : TRUE
           ELSE IF j <= 4 THEN FixedNames[j] ELSE ""]

OutOfBounds(r) ==
    \E f \in r.fields \ r.unconv :
        f \in DOMAIN fidMap /\ fidMap[f] >= Cardinality(DOMAIN fidMap)

(* Pass 2 emits a row for a frame that passes the filter, decodes and has  *)
(* a service name, an item name and a message type.                       *)
Emitted(r) ==
    ~Filtered(r) /\ Decoded(r) /\ r.svc # NoName /\ r.item # NoName /\ r.typed

(* An iteration of the pass 2 loop that ends in one of its continues:     *)
(* the frame is filtered, does not decode, or lacks an identifying field.  *)
Pass2Skip ==
    /\ pass = "pass2"
    /\ pos <= Len(archive)
    /\ ~Emitted(archive[pos])
    /\ pos' = ResumeAfter(archive[pos], pos)
    /\ UNCHANGED <<archive, pass, fids, columns, fault, rows>>

(* An iteration of the pass 2 loop that builds a row and writes it.        *)
(* service_map[name] default-constructs a null stream for a service with   *)
(* no output file, and the stream is dereferenced.                        *)
Pass2Row ==
    /\ pass = "pass2"
    /\ pos <= Len(archive)
    /\ Emitted(archive[pos])
    /\ LET r == archive[pos] IN
       CASE OutOfBounds(r) ->
              /\ fault' = "out_of_bounds"
              /\ pass' = "fault"
              /\ UNCHANGED <<pos, rows>>
         [] r.svc \notin OutServices ->
              /\ fault' = "null_stream"
              /\ pass' = "fault"
              /\ UNCHANGED <<pos, rows>>
         [] OTHER ->
              /\ rows' = [rows EXCEPT ![r.svc] =
                             Append(@, [at |-> pos, cells |-> RowOf(r)])]
              /\ pos' = ResumeAfter(r, pos)
              /\ UNCHANGED <<pass, fault>>
    /\ UNCHANGED <<archive, fids, columns>>

(* ReadVarint32 fails: the end of pass 2 and of Convert. *)
EndPass2 ==
    /\ pass = "pass2"
    /\ pos > Len(archive)
    /\ pass' = "done"
    /\ UNCHANGED <<archive, pos, fids, columns, fault, rows>>

Next == Pass1Read \/ EndPass1 \/ Pass2Skip \/ Pass2Row \/ EndPass2

Spec == Init /\ [][Next]_vars

-----------------------------------------------------------------------------
(* Properties *)

TypeOK ==
    /\ archive \in Archives
    /\ pass \in {"pass1", "pass2", "done", "fault"}
    /\ pos \in 1..(2 * MaxFrames + 1)
    /\ fids \subseteq FieldNames
    /\ columns \in Seq(FieldNames)
    /\ fault \in {"none", "out_of_bounds", "null_stream"}
    /\ \A s \in OutServices : \A k \in 1..Len(rows[s]) :
          /\ rows[s][k].at \in DOMAIN archive
          /\ rows[s][k].cells \in [1..Cardinality(DOMAIN fidMap) ->
                                    FieldNames \cup {"service", "symbol", "time", "type", ""}]

(* Placement agreement between the passes (the header written after pass  *)
(* 1, fid_map and the cells pass 2 fills): a non-empty cell of a row holds *)
(* the value of the source the header names for that column.              *)
CellsUnderTheirHeader ==
    \A s \in OutServices : \A k \in 1..Len(rows[s]) :
        LET c == rows[s][k].cells IN
        \A j \in 1..Len(c) : c[j] # "" => j <= Len(HeaderCells) /\ c[j] = HeaderCells[j]

(* Column agreement between the passes: every row has as many cells as its *)
(* file's header (design 3, CsvSchema: one column per fixed or discovered  *)
(* field), and each cell sits under its source's column.                   *)
SchemaAgrees ==
    /\ CellsUnderTheirHeader
    /\ \A s \in OutServices : \A k \in 1..Len(rows[s]) :
          Len(rows[s][k].cells) = Len(HeaderCells)

(* The frames the design says become rows: decoded, passing the symbol     *)
(* filter, with service, item and message type present.                   *)
RowFrame(r) ==
    /\ r.parse = "ok" /\ r.unpack
    /\ r.svc # NoName /\ r.item # NoName /\ r.typed
    /\ SymbolSet = {} \/ r.item \in SymbolSet

ExpectedRows(s) ==
    SelectSeq([i \in 1..Len(archive) |-> i],
              LAMBDA i : RowFrame(archive[i]) /\ archive[i].svc = s)

(* When Convert returns, each service file holds exactly one row for every *)
(* valid frame of that service, in archive order: a frame that fails to   *)
(* parse or unpack costs that frame only (the read loops of both passes).  *)
RowsComplete ==
    pass = "done" =>
        \A s \in OutServices :
            [k \in 1..Len(rows[s]) |-> rows[s][k].at] = ExpectedRows(s)

(* Pass 2 never writes past the row vector nor through a null stream       *)
(* (columns[it->second] and *service_map[...]).                           *)
NoUndefinedBehaviour == fault = "none"

(* Index of the first decoded, unfiltered frame carrying field f.          *)
FirstSeen(f) ==
    CHOOSE i \in 1..Len(archive) :
        /\ ~Filtered(archive[i]) /\ Decoded(archive[i]) /\ f \in archive[i].fields
        /\ \A h \in 1..(i - 1) :
              ~(~Filtered(archive[h]) /\ Decoded(archive[h]) /\ f \in archive[h].fields)

(* The discovered columns are in the order their names were first seen    *)
(* during pass 1 (the copy of the unordered_set at torikuru.cc:425-426).   *)
ColumnsInFirstSeenOrder ==
    pass # "pass1" =>
        \A i, j \in 1..Len(columns) : i < j => FirstSeen(columns[i]) <= FirstSeen(columns[j])

=============================================================================
