---------------------------- MODULE MCTorikuru -----------------------------
EXTENDS Torikuru, TLC

CONSTANTS a, b

MCSymbols == {a, b}

(* A symbol file "a b\n a": two symbols and a repeated instrument, so the  *)
(* duplicate-key path is taken.                                            *)
MCSymbolFile == <<a, " ", b, "\n", " ", a>>

\* A symbol file "a\n": one symbol per consumer, for several sessions.
MCOneSymbolFile == <<a, "\n">>

\* --symbol-path=symbols.txt --output-path=capture.bin --time-limit=60
MCCapture ==
  ("symbol-path" :> "symbols.txt") @@ ("output-path" :> "capture.bin") @@ ("time-limit" :> "60")

\* --symbol-path=symbols.txt --time-limit=60: subscribe without an archive.
MCWatch == ("symbol-path" :> "symbols.txt") @@ ("time-limit" :> "60")

\* The same with --terminate-on-sync.
MCCaptureToSync == MCCapture @@ ("terminate-on-sync" :> "")

\* --symbol-path=symbols.txt --output-path=capture.bin: no time limit.
MCCaptureNoLimit == ("symbol-path" :> "symbols.txt") @@ ("output-path" :> "capture.bin")

\* --symbol-path=symbols.txt --output-path=capture.bin --terminate-on-sync: no limit.
MCToSyncNoLimit == MCCaptureNoLimit @@ ("terminate-on-sync" :> "")

\* The same with --disable-refresh --terminate-on-sync.
MCSyncOnce == MCCaptureNoLimit @@ ("disable-refresh" :> "") @@ ("terminate-on-sync" :> "")

\* A --session URL by the components url_parse finds in it.
Url(sch, usr, hst, prt, fil, qry) ==
  [scheme |-> sch, user |-> usr, host |-> hst, port |-> prt, file |-> fil, query |-> qry]

\* ssled://user1@adh1:8101/IDN_RDF?application-id=256&position=10.0.0.1/net
MCOneSsled ==
  << Url("ssled", "user1", "adh1", "8101", "IDN_RDF",
         << <<"application-id", "256">>, <<"position", "10.0.0.1/net">> >>) >>

\* rssl://:14002/IDN_RDF: user from LOGNAME, host localhost.
MCOneRssl == << Url("rssl", NoValue, NoValue, "14002", "IDN_RDF", << >>) >>

\* ssled://user1@adh1:8101/IDN_RDF?...,rssl://:14002/ELEKTRON: one session of each transport.
MCSsledAndRssl ==
  MCOneSsled \o << Url("rssl", NoValue, NoValue, "14002", "ELEKTRON", << >>) >>

\* ssled://user1@adh1/IDN_RDF,SSLED://adh2:8101/ELEKTRON?application-id=256&application-id=257
MCTwoSsled ==
  << Url("ssled", "user1", "adh1", NoValue, "IDN_RDF", << >>),
     Url("SSLED", NoValue, "adh2", "8101", "ELEKTRON",
         << <<"application-id", "256">>, <<"application-id", "257">> >>) >>
=============================================================================
