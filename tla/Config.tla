------------------------------ MODULE Config -------------------------------
(***************************************************************************)
(* Configuration as torikuru builds it: the --session URLs parsed into     *)
(* session_config_t records (torikuru_t::Init, src/src/torikuru.cc:99-179) *)
(* and those records written into the RFA staging configuration database   *)
(* (rfa_t::Init, src/src/rfa.cc:121-219).                                  *)
(*                                                                         *)
(* A URL is given by the components url_parse finds in it: scheme, user    *)
(* name, host, port, the file name of the path, and the query as a        *)
(* sequence of <<key, value>> pairs; NoValue marks a component that is not *)
(* valid. Strings keep their text, and appending is \o. The configuration  *)
(* database is a function from paths (tuples of names) to values, and a    *)
(* write replaces the value at its path.                                   *)
(***************************************************************************)
EXTENDS Integers, Sequences
LOCAL INSTANCE SequencesExt

CONSTANTS
  NoValue,     \* an invalid URL component, an unset variable or a missing file
  LogName,     \* getenv("LOGNAME")
  Switches,    \* the other switches of the command line: name |-> value text
  SessionUrls, \* the --session switch: its URLs, in order, as URL records
  SymbolFile   \* the --symbol-path file as words and whitespace, or NoValue

(* The switches torikuru_t::Init asks CommandLine about (namespace         *)
(* switches); any other switch on the command line is never read.         *)
SwitchNames == {"time-limit", "session", "symbol-path", "output-path", "input-path",
                "disable-update", "disable-refresh", "terminate-on-sync"}

ASSUME DOMAIN Switches \subseteq SwitchNames \ {"session"}

(* std::atoi on the decimal texts the model uses: their value, 0 for a    *)
(* text that does not start with a number (the empty text included).      *)
DecimalTexts == ("8101" :> 8101) @@ ("14002" :> 14002) @@ ("60" :> 60) @@ ("-1" :> -1)
Atoi(p) == IF p \in DOMAIN DecimalTexts THEN DecimalTexts[p] ELSE 0

\* CommandLine::HasSwitch, and the value of a switch ("" when absent).
HasSwitch(sw) == sw \in DOMAIN Switches
SwitchValue(sw) == IF HasSwitch(sw) THEN Switches[sw] ELSE ""

(* The boolean switches set config_t's flags, false by default (config.cc); *)
(* output_path, time_limit and input_path take the switch's text.          *)
DisableUpdate   == HasSwitch("disable-update")
DisableRefresh  == HasSwitch("disable-refresh")
TerminateOnSync == HasSwitch("terminate-on-sync")
Capture         == SwitchValue("output-path") # ""
TimeLimit       == Atoi(SwitchValue("time-limit"))

(* SplitStringAlongWhitespace: the words of the file in order, every run  *)
(* of whitespace dropped.                                                  *)
Whitespace == {" ", "\t", "\n"}
SplitAlongWhitespace(contents) == SelectSeq(contents, LAMBDA w : w \notin Whitespace)

(* config_.instruments: the words of the --symbol-path file when the path  *)
(* exists; otherwise, or without the switch, no instruments.               *)
Instruments ==
  IF HasSwitch("symbol-path") /\ SymbolFile # NoValue
  THEN SplitAlongWhitespace(SymbolFile) ELSE << >>

(* LowerCaseEqualsASCII compares the protocol, lower-cased, with "rssl" or *)
(* "ssled" (rfa.cc:18-19). Lower-casing on the scheme texts the model uses. *)
UpperCaseSchemes == ("RSSL" :> "rssl") @@ ("SSLED" :> "ssled")
Lower(p) == IF p \in DOMAIN UpperCaseSchemes THEN UpperCaseSchemes[p] ELSE p

\* The transport a protocol string selects: "rssl", "ssled" or neither.
Transport(p) == CASE Lower(p) = "rssl"  -> "rssl"
                  [] Lower(p) = "ssled" -> "ssled"
                  [] OTHER              -> "other"

(* The value of the last query pair with this key, "" if there is none:   *)
(* the ExtractQueryKeyValue loop assigns on every match.                   *)
QueryValue(query, key) ==
  FoldLeft(LAMBDA acc, kv : IF kv[1] = key THEN kv[2] ELSE acc, "", query)

\* Text of a valid component, or the default when it is not valid.
Part(x, default) == IF x = NoValue THEN default ELSE x

(* One URL of --session into a session_config_t. Without a user name the  *)
(* user is getenv("LOGNAME"); without a host it is "localhost"; the        *)
(* service is the path's file name; the session, connection and consumer   *)
(* names append the service name to fixed prefixes.                        *)
ParseSession(u) ==
  LET svc == Part(u.file, "") IN
  [protocol       |-> Part(u.scheme, ""),
   user_name      |-> Part(u.user, LogName),
   server         |-> Part(u.host, "localhost"),
   default_port   |-> Part(u.port, ""),
   service_name   |-> svc,
   application_id |-> QueryValue(u.query, "application-id"),
   instance_id    |-> QueryValue(u.query, "instance-id"),
   position       |-> QueryValue(u.query, "position"),
   session_name   |-> "Session" \o svc,
   connection_name |-> "Connection" \o svc,
   consumer_name  |-> "Consumer" \o svc]

\* config_.sessions: the URLs of the comma-separated --session list, in order.
ParseSessions(urls) == [i \in DOMAIN urls |-> ParseSession(urls[i])]

\* config_.sessions of this run.
Configured == ParseSessions(SessionUrls)

(* A URL without a user name while LOGNAME is unset: the null result of    *)
(* getenv is passed to std::string::assign, and the process faults.        *)
LogNameFault(urls) == LogName = NoValue /\ \E i \in DOMAIN urls : urls[i].user = NoValue

-----------------------------------------------------------------------------
\* setString / setBool / setLong on the staging database.
Write(db, path, v) == (path :> v) @@ db

\* The three application logger settings written first.
LoggerDefaults ==
  Write(Write(Write(<<>>,
    <<"Logger", "AppLogger", "windowsLoggerEnabled">>, FALSE),
    <<"Logger", "AppLogger", "fileLoggerEnabled">>, FALSE),
    <<"Logger", "AppLogger", "useInternalLogStrings">>, TRUE)

(* DACS user name: user, then "+application-id" and "+position" when set. *)
DacsUser(c) ==
  c.user_name \o IF c.application_id = "" THEN ""
                 ELSE "+" \o c.application_id \o
                      IF c.position = "" THEN "" ELSE "+" \o c.position

(* One iteration of the session loop over the accumulated staging state  *)
(* [db, ok, ssled]: the session's connection list and server list, then   *)
(* by protocol its connection type, port and (ssled) user name; an        *)
(* unsupported protocol ends the loop with Init returning false. The port  *)
(* is written as text (rsslPort) or through atoi (portNumber).           *)
StageSession(acc, c) ==
  LET conn(key) == <<"Connections", c.connection_name, key>>
      listed    == Write(Write(acc.db,
                     <<"Sessions", c.session_name, "connectionList">>, c.connection_name),
                     conn("serverList"), c.server)
      rssl      == Transport(c.protocol) = "rssl"
      typed     == Write(listed, conn("connectionType"), IF rssl THEN "RSSL" ELSE "SSLED")
      ported    == IF c.default_port = "" THEN typed
                   ELSE IF rssl THEN Write(typed, conn("rsslPort"), c.default_port)
                   ELSE Write(typed, conn("portNumber"), Atoi(c.default_port))
  IN CASE ~acc.ok                         -> acc
       [] Transport(c.protocol) = "rssl"  -> [acc EXCEPT !.db = ported]
       [] Transport(c.protocol) = "ssled" ->
            [acc EXCEPT !.db = Write(ported, conn("userName"), DacsUser(c)),
                        !.ssled = TRUE]
       [] OTHER                           -> [acc EXCEPT !.ok = FALSE]

(* The staging database after the session loop and, when some session is *)
(* ssled, the two entitlement switches; ok is FALSE when the loop met an  *)
(* unsupported protocol, and ssled says the dictionary is to be read.     *)
Staging(cfgs) ==
  LET r == FoldLeft(StageSession, [db |-> LoggerDefaults, ok |-> TRUE, ssled |-> FALSE], cfgs)
  IN [r EXCEPT !.db = IF r.ssled
                        THEN Write(Write(@, <<"Control", "Entitlements", "dacs_CbeEnabled">>, FALSE),
                                   <<"Control", "Entitlements", "dacs_SbeEnabled">>, FALSE)
                        ELSE @]

====
