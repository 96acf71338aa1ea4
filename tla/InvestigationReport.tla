------------------------- MODULE InvestigationReport -------------------------
(***************************************************************************)
(* buildInvestigationReport: the document made of a page and of the results *)
(* of the detectors (apps/api/src/extract/investigation-report.builder.ts), *)
(* and the schema it must pass (packages/shared/src/schemas).               *)
(*                                                                         *)
(* Results are a function from dimensions to results. A mark <<"many",     *)
(* "page", f>> says that the page holds more of f than the report may, a    *)
(* mark <<"long", "page", f>> that a text of f is longer than it may be.    *)
(***************************************************************************)
EXTENDS PageDetectors

(* detectedTechnologyNames *)
DetectedNames(result) ==
    CASE result.status # "ok" -> {}
      [] "detected" \in DOMAIN result.data.lists -> ToSet(result.data.lists["detected"])
      [] OTHER -> TextField(result.data, "primary") \ {""}

(* A technology is supported by the evidence that mentions it; when it is   *)
(* the only one detected, by all evidence if none mentions it.              *)
EvidenceFor(name, result) ==
    LET matching == Only(result.evidence, {e \in ToSet(result.evidence) : name \in e.names})
    IN  IF matching # <<>> \/ Cardinality(DetectedNames(result)) > 1
        THEN matching ELSE result.evidence

(* Slip: no evidence falls through to the last case. *)
ConfidenceFromHopeful(evidence) ==
    IF \E i \in DOMAIN evidence : evidence[i].confidence = "high" THEN "confirmed" ELSE "probable"

ConfidenceFrom(evidence) ==
    LET having(c) == {i \in DOMAIN evidence : evidence[i].confidence = c}
    IN  CASE having("high") # {} -> "confirmed"
          [] having("high") = {} /\ Cardinality(having("medium")) >= 2 -> "highly_probable"
          [] OTHER -> IF evidence = <<>> THEN "not_identified" ELSE "probable"

Ranking == <<"confirmed", "highly_probable", "probable", "not_identified">>

(* Slip: all evidence of a detector is pooled. *)
ConfidenceForPooled(result) ==
    IF result.status # "ok" \/ ~HasSignal(result.data) THEN "not_identified"
    ELSE ConfidenceFrom(result.evidence)

ConfidenceFor(result) ==
    LET each == {ConfidenceFrom(EvidenceFor(n, result)) : n \in DetectedNames(result)}
    IN  CASE result.status # "ok" -> "not_identified"
          [] ~HasSignal(result.data) -> "not_identified"
          [] OTHER -> IF DetectedNames(result) = {} THEN ConfidenceFrom(result.evidence)
                      ELSE Head(Only(Ranking, each))

Identified(confidence) == confidence # "not_identified"

(* byDimension.get(dim): undefined, like a failed result, identifies nothing. *)
ResultOf(results, dim) == IF dim \in DOMAIN results THEN results[dim] ELSE Failed

------------------------------------------------------------------------------
(* Findings *)

Finding(name, category, confidence, evidence) ==
    [name |-> name, category |-> category, confidence |-> confidence, evidence |-> evidence]

Sure(n) == [i \in 1..n |-> Ev("high", {})]
ConfirmedIf(cond) == IF cond THEN "confirmed" ELSE "not_identified"

DetectorFinding(dim, result) ==
    Finding(dim, dim, ConfidenceFor(result), result.evidence)

TechnologyFindings(dim, result) ==
    {Finding(n, dim, ConfidenceFrom(EvidenceFor(n, result)), EvidenceFor(n, result)) :
        n \in DetectedNames(result)}

(* Language, images and headings always count as three pieces of evidence. *)
AccessibilityFinding(page) ==
    Finding("accessibility", "Accessibility", "confirmed", Sure(3))

SecurityHeaders == {"strict-transport-security", "content-security-policy",
    "x-content-type-options", "referrer-policy", "permissions-policy", "x-frame-options"}

SecurityFinding(page) ==
    LET observed == {h \in SecurityHeaders : Hit(page, "header", "page", h)}
    IN  Finding("security", "Security", "confirmed", Sure(Cardinality(observed)))

PwaFinding(page) ==
    LET evidence == When(Hit(page, "link", "page", "manifest"), Ev("high", {}))
                      \o When(Hit(page, "script", "page", "service-worker"), Ev("medium", {}))
    IN  Finding("pwa", "Frontend", ConfirmedIf(evidence # <<>>), evidence)

MediaFinding(page) ==
    LET sources == Count(page, "html", "page", "image")
    IN  Finding("media", "Media", ConfirmedIf(sources > 0), Sure(sources))

CmsSignatures == <<"WordPress", "Shopify", "Webflow", "Sanity", "Contentful", "Storyblok">>

CmsFinding(page) ==
    LET found == Found(page, "cms", CmsSignatures, <<"html", "network">>)
    IN  Finding(IF found = <<>> THEN "CMS" ELSE Head(found), "CMS",
                ConfirmedIf(found # <<>>), Sure(IF found = <<>> THEN 0 ELSE 1))

PublicApiFinding(page) ==
    Finding("endpoints", "APIs", ConfirmedIf(AnyCall(page)), Sure(IF AnyCall(page) THEN 1 ELSE 0))

(* select: the findings of some dimensions, of those the results hold. *)
Select(results, dims) ==
    {DetectorFinding(d, results[d]) : d \in dims \intersect DOMAIN results}

Sections(page, results) ==
    [frontend |-> Select(results, {"cssFramework", "cssCustomization", "language", "libraries",
                                   "stateManagement", "routing", "componentArchitecture",
                                   "architecture"})
                    \union {PwaFinding(page), MediaFinding(page)},
     designSystem |-> Select(results, {"designSystem", "typography", "responsive", "animation",
                                       "scrollAnimation", "transition", "designTokens",
                                       "palette", "icons"}),
     backend |-> Select(results, {"backendFramework", "databaseIndicators", "dockerKubernetes",
                                  "reverseProxy", "architecture"}),
     apisCommunication |-> Select(results, {"apisConsumed", "architecture"})
                             \union {PublicApiFinding(page)},
     authenticationSecurity |-> Select(results, {"authProvider"}) \union {SecurityFinding(page)},
     cmsContent |-> {CmsFinding(page)},
     infrastructureDeploy |-> Select(results, {"cdn", "cloudProvider", "reverseProxy",
                                               "dockerKubernetes"}),
     integrations |-> Select(results, {"thirdPartyServices", "analytics"}),
     performanceAccessibility |-> Select(results, {"performance", "seo"})
                                    \union {AccessibilityFinding(page), MediaFinding(page)}]

------------------------------------------------------------------------------
(* Risks, recommendations, diagram, matrix *)

Risk(severity, status, title) == [severity |-> severity, status |-> status, title |-> title]

BuildRisks(page) ==
    LET header(h) == Hit(page, "header", "page", h)
        flagged(cond, risk) == IF cond THEN {risk} ELSE {}
    IN  flagged(Hit(page, "html", "page", "image-without-alt"),
                Risk("medium", "confirmed_problem", "alt"))
        \union flagged(~Hit(page, "meta", "page", "lang"),
                       Risk("medium", "confirmed_problem", "lang"))
        \union flagged(Hit(page, "html", "page", "skipped-heading"),
                       Risk("low", "potential_risk", "headings"))
        \union flagged(~header("content-security-policy"), Risk("medium", "potential_risk", "csp"))
        \union flagged(~header("strict-transport-security") /\ Hit(page, "url", "page", "https"),
                       Risk("medium", "potential_risk", "hsts"))
        \union {Risk("informational", "limitation", "coverage")}

BuildRecommendations(risks, results) ==
    {[priority |-> r.severity, title |-> r.title] : r \in {x \in risks : x.status # "limitation"}}
    \union (IF ResultOf(results, "performance").status = "ok"
            THEN {[priority |-> "medium", title |-> "web vitals"]} ELSE {})
    \union {[priority |-> "low", title |-> "validate"]}

BuildDiagram(page, results) ==
    LET known(dim) == Identified(ConfidenceFor(ResultOf(results, dim)))
        edges(cond, es) == IF cond THEN es ELSE {}
    IN  {<<"U", "FE">>}
        \union edges(AnyCall(page), {<<"FE", "API">>})
        \union edges(known("authProvider"), {<<"FE", "AUTH">>})
        \union edges(known("analytics"), {<<"FE", "ANALYTICS">>})
        \union edges(known("cdn"), {<<"U", "CDN">>, <<"CDN", "FE">>})
        \union edges(known("backendFramework"), {<<"API", "BE">>})

EstimatedStructure(results) ==
    IF Identified(ConfidenceFor(ResultOf(results, "libraries"))) THEN "application" ELSE "assets"

MatrixDimensions == {"libraries", "language", "cssFramework", "animation", "architecture",
    "backendFramework", "apisConsumed", "authProvider", "databaseIndicators", "cms",
    "cloudProvider", "cdn", "analytics", "thirdPartyServices"}

(* A row shows data when the detector has some, whatever its confidence. *)
BuildConfidenceMatrix(page, results) ==
    [dim \in MatrixDimensions |->
        LET result == ResultOf(results, dim)
        IN  IF dim = "cms" THEN [shown |-> TRUE, confidence |-> CmsFinding(page).confidence]
            ELSE [shown |-> result.status = "ok" /\ HasSignal(result.data),
                  confidence |-> ConfidenceFor(result)]]

------------------------------------------------------------------------------
(* What the schema bounds. Of each field of the technical evidence, how many *)
(* entries it has and whether one is longer than its bound.                   *)

SchemaMax ==
    [scripts |-> 300, stylesheets |-> 300, cssVariables |-> 300, fonts |-> 100,
     externalDomains |-> 300, publicEndpoints |-> 300, cookies |-> 100, manifests |-> 30,
     serviceWorkers |-> 30]

(* Two records are bounded in their texts only. *)
EvidenceFields == DOMAIN SchemaMax \union {"relevantHeaders", "metadata"}

(* collectTechnicalEvidence cuts these lists, and the texts of one other. *)
Cut == [scripts |-> 300, stylesheets |-> 300, cssVariables |-> 300, fonts |-> 100]
CutTexts == {"serviceWorkers"}

(* These are taken from what a detector returned. *)
TakenFrom == [cssVariables |-> "designTokens", fonts |-> "typography"]

(* Slip: nothing is cut. *)
CollectUncut(page, results) ==
    [f \in EvidenceFields |->
        [entries |-> IF f \in DOMAIN SchemaMax /\ Hit(page, "many", "page", f)
                     THEN SchemaMax[f] + 1 ELSE 1,
         long |-> Hit(page, "long", "page", f)]]

CollectTechnicalEvidence(page, results) ==
    [f \in EvidenceFields |->
        LET there == f \in DOMAIN TakenFrom => ResultOf(results, TakenFrom[f]).status = "ok"
            raw == IF f \in DOMAIN SchemaMax /\ Hit(page, "many", "page", f)
                   THEN SchemaMax[f] + 1 ELSE 1
        IN  [entries |-> CASE ~there -> 0
                           [] there /\ f \in DOMAIN Cut -> Min({raw, Cut[f]})
                           [] OTHER -> raw,
             long |-> there /\ f \notin CutTexts /\ Hit(page, "long", "page", f)]]

(* A finding holds all evidence of its detector, at most 100 pieces. Only    *)
(* these two detectors return a piece per request.                            *)
Overfull(page, results) ==
    \E d \in {"apisConsumed", "dockerKubernetes"} :
        ResultOf(results, d).status = "ok" /\ Hit(page, "many", d, "evidence")

(* Locations are the final URL, and behind the source of its evidence for a  *)
(* finding that has some: there a URL just within the limit ("location") is   *)
(* too long as well. An unmerged gridSystem is in no section.                 *)
LocatedTooFar(page, results) ==
    \/ Hit(page, "long", "page", "finalUrl")
    \/ /\ Hit(page, "long", "page", "location")
       /\ \E d \in DOMAIN results \ {"gridSystem"} : results[d].evidence # <<>>

(* InvestigationReportSchema; the system overview holds the page's title. *)
FitsSchema(page, results) ==
    LET collected == CollectTechnicalEvidence(page, results)
    IN  /\ \A f \in DOMAIN SchemaMax : collected[f].entries <= SchemaMax[f]
        /\ \A f \in EvidenceFields : ~collected[f].long
        /\ ~Overfull(page, results) /\ ~LocatedTooFar(page, results)
        /\ ~Hit(page, "long", "page", "title")

(* safeJson cuts the accessibility data after 8000 characters and buildRisks *)
(* parses it again: too many headings make that throw.                       *)
BuildThrows(page, results) ==
    Hit(page, "many", "page", "headings") \/ ~FitsSchema(page, results)

(* mainTechnologies is the first thirty of the confirmed names. *)
BuildInvestigationReport(page, results) ==
    LET rows == UNION {TechnologyFindings(d, results[d]) : d \in DOMAIN results}
        names == {r.name : r \in {x \in rows : Identified(x.confidence)}}
        risks == BuildRisks(page)
    IN  [technologyTable |-> rows,
         confirmedTechnologyNames |-> names,
         overallConfidence |-> IF names # {} THEN "highly_probable" ELSE "probable",
         sections |-> Sections(page, results),
         diagram |-> BuildDiagram(page, results),
         structure |-> EstimatedStructure(results),
         risks |-> risks,
         recommendations |-> BuildRecommendations(risks, results),
         confidenceMatrix |-> BuildConfidenceMatrix(page, results),
         technicalEvidence |-> CollectTechnicalEvidence(page, results)]
=============================================================================
