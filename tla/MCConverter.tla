---------------------------- MODULE MCConverter ----------------------------
EXTENDS Converter, TLC

CONSTANTS i1, i2, none

\* The two services, as the path of a --session URL names them.
s1 == "IDN_RDF"
s2 == "ELEKTRON"

\* A --session URL by the components url_parse finds in it.
Url(sch, usr, hst, prt, fil, qry) ==
  [scheme |-> sch, user |-> usr, host |-> hst, port |-> prt, file |-> fil, query |-> qry]

\* ssled://adh1/IDN_RDF,ssled://adh1/ELEKTRON
MCBothServices == << Url("ssled", NoValue, "adh1", NoValue, s1, << >>),
                     Url("ssled", NoValue, "adh1", NoValue, s2, << >>) >>

\* ssled://adh1/IDN_RDF
MCOneService == << Url("ssled", NoValue, "adh1", NoValue, s1, << >>) >>

\* --input-path=capture.bin --symbol-path=symbols.txt --output-path=$1.csv
MCReplay ==
  ("input-path" :> "capture.bin") @@ ("symbol-path" :> "symbols.txt") @@ ("output-path" :> "$1.csv")

\* A symbol file "i1\n".
MCSymbolFile == << i1, "\n" >>

MCServices == {s1, s2}
MCItems == {i1, i2}

(* A frame shape: service, item, message type present, payload field names, *)
(* fields whose value does not convert, parse outcome, unpack outcome, and  *)
(* records lost after a parse failing inside the record.                    *)
F(svc, item, typed, fields, unconv, parse, unpack, lost) ==
    [svc |-> svc, item |-> item, typed |-> typed, fields |-> fields,
     unconv |-> unconv, parse |-> parse, unpack |-> unpack, lost |-> lost]

(* Well-formed frames of both services, a filtered item, missing names and *)
(* type, a value that does not convert, a payload without fields, and      *)
(* every decode failure that leaves the reader on a record boundary.       *)
FramesBasic ==
    { F(s1, i1, TRUE, {"BID"}, {}, "ok", TRUE, 0),
      F(s2, i1, TRUE, {"BID", "ASK"}, {"ASK"}, "ok", TRUE, 0),
      F(s1, i2, TRUE, {"ASK"}, {}, "ok", TRUE, 0),
      F(s2, none, TRUE, {"ASK"}, {}, "ok", TRUE, 0),
      F(s1, i1, FALSE, {"ASK"}, {}, "ok", TRUE, 0),
      F(s1, i1, TRUE, {"ASK"}, {}, "end", TRUE, 0),
      F(s2, i1, TRUE, {"BID"}, {}, "ok", FALSE, 0),
      F(s1, i1, TRUE, {}, {}, "ok", TRUE, 0) }

(* A payload field named like the fixed column "type". *)
FramesCollision ==
    { F(s1, i1, TRUE, {"BID"}, {}, "ok", TRUE, 0),
      F(s1, i1, TRUE, {"type"}, {}, "ok", TRUE, 0) }

(* A record whose parse fails inside it, after which one record is lost. *)
FramesDesync ==
    { F(s1, i1, TRUE, {"BID"}, {}, "ok", TRUE, 0),
      F(s1, i1, TRUE, {"BID"}, {}, "mid", TRUE, 1) }
=============================================================================
