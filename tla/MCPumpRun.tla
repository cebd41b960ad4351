------------------------------ MODULE MCPumpRun ------------------------------
(* Three objects, the third of the same name as the first, two to a page.   *)
(* Requests of every caller, most of them refused; situations with one kind *)
(* of fault each, and one with a clock and no fault.                        *)
EXTENDS PumpRun, TLC

MCName == [o \in Objects |-> IF o = 3 THEN 1 ELSE o]
MCSkippable == {}

Args ==
  [source : {"main", Malformed}, format : {"zip", "tar"}, concurrency : {Absent, 1, 2, Junk},
   failureMode : {"fail-fast", "best-effort"}, zipStoreMinBytes : {Absent, 0},
   includeManifest : {TRUE}]

Job ==
  [source |-> "main", format |-> "zip", concurrency |-> 2, failureMode |-> "fail-fast",
   adaptive |-> FALSE, dedupe |-> FALSE, zipStoreMinBytes |-> Absent,
   additionalListSources |-> <<"other">>, includeManifest |-> FALSE, namesCheckpoint |-> TRUE]

Options ==
  {[Plain EXCEPT !.format = f, !.concurrency = c, !.dedupe = d, !.objectPriority = p,
                 !.deterministicOrdering = o, !.adaptive = a] :
     f \in {"zip", "tar"}, c \in {Absent, 1, 2, NaN}, d, p, o, a \in BOOLEAN}
  \cup {[Plain EXCEPT !.additionalListSources = r, !.preparedIndexNdjson = i] :
          r \in {<<"main">>, <<"other", "other">>, <<"other">>}, i \in BOOLEAN}
  \cup {[Plain EXCEPT !.throughputAdaptive = TRUE, !.rollingWindowMs = w, !.checkpoint = TRUE] :
          w \in {Absent, NaN, 0, 1}}
  \cup {[Plain EXCEPT !.failureMode = "best-effort", !.format = f, !.includeManifest = m] :
          f \in {"zip", "tar"}, m \in BOOLEAN}

MCRequests ==
  {<<"archive", CliRequest(a)>> : a \in {x \in Args : CliParses(x)}}
  \cup {<<"benchmark", BenchmarkRequest(a)>> : a \in {x \in Args : x.concurrency = 2}}
  \cup {<<"pump", JobRequest(Job, s)>> : s \in BOOLEAN}
  \cup {<<"stream", o>> : o \in Options}

MCSituations ==
  {<<"s3", {"get", "name", "save", "load", "abort"}, FALSE>>,
   <<"memory", {"append", "hook", "mapping"}, FALSE>>,
   <<"gcs", {"abort", "destination"}, FALSE>>, <<"azure", {"abort", "get"}, FALSE>>,
   <<"index", {"list"}, FALSE>>, <<"azure", {}, TRUE>>}
=============================================================================
