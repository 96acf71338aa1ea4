------------------------------- MODULE Extract -------------------------------
(***************************************************************************)
(* From a crawled page to what the browser shows of it: ExtractService      *)
(* (apps/api/src/extract/extract.service.ts) in an attempt of the worker,   *)
(* the report in its JSONB column, the API reading it, ReportView.          *)
(***************************************************************************)
EXTENDS ReportView

CONSTANTS Inputs,        \* pairs of a page and the set of detectors that throw on it
          MaxAttempts    \* attempts of a job

ASSUME InputsAssumption ==
    \A in \in Inputs : in[2] \subseteq ToSet(DetectorList)
ASSUME MaxAttemptsAssumption == MaxAttempts \in Nat \ {0}

VARIABLES input,      \* what this job meets
          attempt,    \* attempts begun
          status,     \* of the job: RUNNING, SUCCEEDED, FAILED
          report,     \* what extract() returned in this attempt, or NoReport
          payload,    \* the report column of the database, or NoReport
          view        \* what the browser shows, or NoReport

vars == <<input, attempt, status, report, payload, view>>

NoReport == [sections |-> <<>>]

------------------------------------------------------------------------------
(* ExtractService *)

(* Slip: Promise.all over detectors nobody catches. *)
RunDetectorsTogether(page, broken) ==
    [i \in DOMAIN DetectorList |->
        [dim |-> DetectorList[i],
         result |-> IF broken # {} THEN Failed ELSE Detect(DetectorList[i], page)]]

(* runDetectorsSafely: a detector that throws becomes an error of its own. *)
RunDetectorsSafely(page, broken) ==
    [i \in DOMAIN DetectorList |->
        [dim |-> DetectorList[i],
         result |-> IF DetectorList[i] \in broken THEN Failed ELSE Detect(DetectorList[i], page)]]

OfDimension(results, dim) == Only(results, {r \in ToSet(results) : r.dim = dim})

ResultIn(results, dim) == Head(OfDimension(results, dim)).result

Pair == {"responsive", "gridSystem"}

(* The merged result has no evidence of its own and goes to the end. *)
MergeResponsiveAndGrid(results) ==
    LET responsive == ResultIn(results, "responsive")
        grid == ResultIn(results, "gridSystem")
        both == [Data(NoFields, NoFields, NoFields, NoFields) EXCEPT
                   !.parts = [responsive |-> responsive.data, grid |-> grid.data]]
    IN  IF responsive.status # "ok" \/ grid.status # "ok" THEN results
        ELSE Append(Only(results, {r \in ToSet(results) : r.dim \notin Pair}),
                    [dim |-> "responsive", result |-> Ok(both, <<>>)])

(* Slip: the merged section stays where it was appended. *)
SortNothing(results) == results

(* A stable sort by the place of a dimension in an order. *)
InOrder(order, results) ==
    FlattenSeq([i \in DOMAIN order |-> OfDimension(results, order[i])])

SortByDimension(results) == InOrder(DetectorList, results)

SectionsOf(page, broken) ==
    SortByDimension(MergeResponsiveAndGrid(RunDetectorsSafely(page, broken)))

(* Object.fromEntries *)
ByDimension(sections) ==
    [d \in {sections[i].dim : i \in DOMAIN sections} |-> ResultIn(sections, d)]

ResultsOf(page, broken) == ByDimension(SectionsOf(page, broken))

ExtractReport(page, broken) ==
    [sections |-> SectionsOf(page, broken),
     investigation |-> BuildInvestigationReport(page, ResultsOf(page, broken))]

------------------------------------------------------------------------------
(* A JSONB object keeps its keys by length, then by their bytes. *)
JsonbOrder == <<"cdn", "seo", "icons", "palette", "routing", "language", "analytics",
    "animation", "libraries", "gridSystem", "responsive", "transition", "typography",
    "performance", "apisConsumed", "architecture", "authProvider", "cssFramework",
    "designSystem", "designTokens", "reverseProxy", "cloudProvider", "scrollAnimation",
    "stateManagement", "backendFramework", "cssCustomization", "dockerKubernetes",
    "databaseIndicators", "thirdPartyServices", "componentArchitecture">>

Stored(rep) == [rep EXCEPT !.sections = InOrder(JsonbOrder, rep.sections)]

(* ExtractionReportSchema: at most 100 pieces of evidence and 512 characters *)
(* of error in a section, and the schema of the document.                    *)
Parses(page, broken) ==
    /\ FitsSchema(page, ResultsOf(page, broken))
    /\ broken = {} \/ ~Hit(page, "many", "page", "error")

(* A text cut between the halves of a surrogate pair is no JSONB text. *)
Storable(page) == ~Hit(page, "text", "page", "split-pair")

------------------------------------------------------------------------------
Page == input[1]
Broken == input[2]

Init ==
    /\ input \in Inputs
    /\ attempt = 0
    /\ status = "RUNNING"
    /\ report = NoReport /\ payload = NoReport /\ view = NoReport

(* What the worker does with attempt n when it threw: retry() or fail(). *)
AttemptFailed(n) ==
    /\ report' = NoReport
    /\ status' = IF n < MaxAttempts THEN "RUNNING" ELSE "FAILED"

(* ExtractService.extract after the crawl, and the parse in the processor. *)
Analyse ==
    /\ status = "RUNNING" /\ report = NoReport
    /\ attempt' = attempt + 1
    /\ IF BuildThrows(Page, ResultsOf(Page, Broken)) \/ ~Parses(Page, Broken)
       THEN AttemptFailed(attempt + 1)
       ELSE report' = ExtractReport(Page, Broken) /\ UNCHANGED status
    /\ UNCHANGED <<input, payload, view>>

(* complete(): status and report in one transaction, which PostgreSQL refuses *)
(* when the text cannot be stored.                                             *)
Complete ==
    /\ status = "RUNNING" /\ report # NoReport
    /\ IF Storable(Page)
       THEN payload' = Stored(report) /\ status' = "SUCCEEDED" /\ report' = NoReport
       ELSE UNCHANGED payload /\ AttemptFailed(attempt)
    /\ UNCHANGED <<input, attempt, view>>

(* GET /extractions/:id, ReportView and its sections, all of them opened. *)
Show ==
    /\ status = "SUCCEEDED" /\ view = NoReport
    /\ view' = [sections |-> Map(payload.sections, LAMBDA s :
                    [dim |-> s.dim, summary |-> ShowSection(s.dim, s.result)])]
    /\ UNCHANGED <<input, attempt, status, report, payload>>

Next == Analyse \/ Complete \/ Show

Spec == Init /\ [][Next]_vars /\ WF_vars(Next)

------------------------------------------------------------------------------
(* Properties *)

Merged == Broken \intersect Pair = {}
Registry == Only(DetectorList, {d \in ToSet(DetectorList) : Merged => d # "gridSystem"})

(* The report has each dimension of the registry once, in the order of the   *)
(* registry; gridSystem goes into responsive when neither threw.              *)
SectionsInOrder ==
    report # NoReport => Map(report.sections, LAMBDA r : r.dim) = Registry

(* A detector that throws changes its own section and nothing else: what the *)
(* others found is in their sections and in the table of technologies.        *)
Isolation ==
    report # NoReport =>
        \A d \in ToSet(DetectorList) :
            LET clean == Detect(d, Page)
                result == ResultIn(report.sections, d)
            IN  CASE d \in Broken -> result = Failed
                  [] d \in Pair /\ Merged ->
                        LET part == IF d = "responsive" THEN "responsive" ELSE "grid"
                            parts == ResultIn(report.sections, "responsive").data.parts
                        IN  part \in DOMAIN parts /\ parts[part] = clean.data
                  [] OTHER -> /\ result = clean
                              /\ TechnologyFindings(d, clean)
                                    \subseteq report.investigation.technologyTable

Findings(doc) == UNION {doc.sections[s] : s \in DOMAIN doc.sections}

(* Nothing is called identified without evidence, in the table and in the    *)
(* sections of the document; only the audits of headers and accessibility    *)
(* state what is absent.                                                      *)
NothingWithoutEvidence ==
    report # NoReport =>
        LET doc == report.investigation
        IN  /\ \A f \in doc.technologyTable \union Findings(doc) :
                  Identified(f.confidence) /\ f.name # "security" => f.evidence # <<>>
            /\ doc.overallConfidence = "highly_probable" => doc.confirmedTechnologyNames # {}

EdgeOf == [cdn |-> <<"U", "CDN">>, authProvider |-> <<"FE", "AUTH">>,
           analytics |-> <<"FE", "ANALYTICS">>, backendFramework |-> <<"API", "BE">>]

(* The parts of the document do not contradict each other: a dimension is as *)
(* sure as its surest technology, in its section, in the matrix and in the    *)
(* diagram alike.                                                             *)
DocumentAgrees ==
    report # NoReport =>
        LET doc == report.investigation
            rows(d) == {f \in doc.technologyTable : f.category = d}
            sure(d) == {f.confidence : f \in {g \in Findings(doc) : g.category = d /\ g.name = d}}
        IN  \A d \in DOMAIN doc.confidenceMatrix \ {"cms"} :
                LET c == doc.confidenceMatrix[d].confidence
                IN  /\ sure(d) \subseteq {c}
                    /\ rows(d) # {} =>
                         /\ c \in {r.confidence : r \in rows(d)}
                         /\ \A r \in rows(d) : \E i, j \in DOMAIN Ranking :
                                i <= j /\ Ranking[i] = c /\ Ranking[j] = r.confidence
                    /\ d \in DOMAIN EdgeOf => (EdgeOf[d] \in doc.diagram <=> Identified(c))
                    /\ d = "libraries" =>
                         (doc.structure = "application"
                            <=> \E r \in rows(d) : r.name \in doc.confirmedTechnologyNames)

SectionOf(d) == ResultIn(payload.sections, d)
ShownOf(d) == Head(OfDimension(view.sections, d)).summary

(* The reader finds every technology of the document in the section of its   *)
(* dimension, and no section shows something its detector did not report.     *)
TechnologiesShown ==
    view # NoReport =>
        /\ \A f \in payload.investigation.technologyTable :
              f.name \in ToSet(ShownOf(f.category).values)
        /\ \A i \in DOMAIN view.sections :
              LET s == view.sections[i]
              IN  ~s.summary.empty /\ SectionOf(s.dim).status = "ok"
                    => HasSignal(SectionOf(s.dim).data)

(* Every field but these holds null, "", "unknown", "none", 0, false or []. *)
SilentBut(data, fields) ==
    /\ \A f \in DOMAIN data.lists \ fields  : data.lists[f] = <<>>
    /\ \A f \in DOMAIN data.counts \ fields : data.counts[f] = 0
    /\ \A f \in DOMAIN data.texts \ fields  : data.texts[f] \subseteq {"", "unknown", "none"}
    /\ \A f \in DOMAIN data.flags \ fields  : ~data.flags[f]

(* The fields a detector fills and its renderer does not ask before it calls *)
(* the section empty. The last five read names no detector writes (libraries *)
(* or sample for libs, tokens for customProperties, mode, approach), so they  *)
(* ask none.                                                                  *)
Unread(dim) ==
    CASE dim = "seo" -> {"canonical", "robots", "jsonLd"}
      [] dim = "backendFramework" -> {"server", "poweredBy"}
      [] dim = "routing" -> {"strategy"}
      [] dim = "typography" -> {"weights", "scale", "baseSize"}
      [] dim = "responsive" -> {"mediaQueries", "containerQueries"}
      [] dim = "animation" -> {"keyframes", "cssTransitions", "cssAnimations"}
      [] dim = "performance" -> {"totalRequests", "preloads", "preconnects", "totalImages"}
      [] dim = "apisConsumed" -> {"graphqlCount", "totalRequests"}
      [] dim = "scrollAnimation" -> {"libs", "hasDataScroll", "hasIntersectionObserver"}
      [] dim = "transition" -> {"libs", "cssTransitionCount", "viewTransitionsApi"}
      [] dim = "designTokens" -> {"customProperties", "groups", "namingConvention"}
      [] dim = "architecture" -> {"signals", "evidence", "rendering", "apiStyle", "monolith"}
      [] dim = "cssCustomization" -> {"customProperties", "cssInJsRuntime", "cssInJsSerialized",
                                      "overrideCount"}
      [] OTHER -> {}

(* formatDetectorData.ts:29 says of an empty section "no useful information   *)
(* was found". It holds of every field the renderers ask: a section shown as  *)
(* empty hides nothing its detector found, outside the fields of Unread.      *)
FoundIsShown ==
    view # NoReport =>
        \A i \in DOMAIN view.sections :
            LET s == view.sections[i]
                data == SectionOf(s.dim).data
            IN  s.summary.empty =>
                  /\ SilentBut(data, Unread(s.dim))
                  /\ \A p \in DOMAIN data.parts : SilentBut(data.parts[p], Unread(s.dim))

Large(f) == Hit(Page, "many", "page", f)

Long(f) == Hit(Page, "long", "page", f)

(* What a field of the technical evidence is taken from did not throw. *)
Returned(f) == f \in DOMAIN TakenFrom => TakenFrom[f] \notin Broken

(* A job is lost to its page only after its last attempt, and only when the   *)
(* page is beyond a limit nobody cuts to: a list, a text, the evidence of one *)
(* detector, the message of one that throws, or what JSONB cannot hold. Never *)
(* because a detector threw, and never for what the builder cuts.             *)
FailsOnlyBeyondLimits ==
    status = "FAILED" =>
        /\ attempt = MaxAttempts
        /\ \/ \E f \in (DOMAIN SchemaMax \ DOMAIN Cut) \union {"headings"} : Large(f)
           \/ \E f \in EvidenceFields \ CutTexts : Long(f) /\ Returned(f)
           \/ \E f \in {"title", "finalUrl", "location"} : Long(f)
           \/ \E d \in {"apisConsumed", "dockerKubernetes"} \ Broken : Hit(Page, "many", d, "evidence")
           \/ Large("error") /\ Broken # {}
           \/ ~Storable(Page)
=============================================================================
