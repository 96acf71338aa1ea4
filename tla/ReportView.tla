------------------------------ MODULE ReportView ------------------------------
(***************************************************************************)
(* What the browser shows of one section: humanizeDetectorData              *)
(* (apps/web/src/features/extract/formatDetectorData.ts). Each renderer     *)
(* reads the fields it expects, by name and type; a field of another name   *)
(* or type reads as absent. A summary says whether it is empty and which    *)
(* values it lists; of an empty summary only the headline is shown.         *)
(***************************************************************************)
EXTENDS InvestigationReport

Summary(empty, values) == [empty |-> empty, values |-> IF empty THEN <<>> ELSE values]

(* asStringArray(data.a ?? data.b ?? ...): the first field that is there, *)
(* whatever its type.                                                      *)
FirstList(data, fields) ==
    LET present == Only(fields, DOMAIN data.lists \union DOMAIN data.counts)
    IN  IF present = <<>> THEN <<>> ELSE ListField(data, Head(present))

HasText(data, f) == TextField(data, f) \ {""} # {}

(* renderDetectedList; the extra rows of an empty list are never shown. *)
RenderList(values) == Summary(values = <<>>, values)

(* Slip: a list of another name. *)
RenderListedNames(data) == RenderList(ListField(data, "names"))

RenderDetectedList(data) == RenderList(ListField(data, "detected"))

RenderSeo(data) ==
    Summary(/\ ~HasText(data, "title") /\ ~HasText(data, "description")
            /\ CountField(data, "openGraph") = 0 /\ CountField(data, "twitter") = 0
            /\ ~FlagField(data, "hasSitemap") /\ ~FlagField(data, "hasRobotsTxt"),
            <<>>)

RenderComponentArchitecture(data) ==
    Summary(~HasText(data, "framework"), ListField(data, "markers"))

RenderTypography(data) == RenderList(FirstList(data, <<"fonts", "families", "detected">>))

(* Slip: the palette of one list the detector used to return. *)
RenderColors(data) == RenderList(ListField(data, "colors"))

RenderPalette(data) ==
    RenderList(ListField(data, "backgroundColors") \o ListField(data, "textColors")
                 \o ListField(data, "borderColors"))

RenderDesignTokens(data) == RenderList(FirstList(data, <<"tokens", "variables", "detected">>))

RenderIcons(data) ==
    Summary(ListField(data, "libraries") = <<>> /\ CountField(data, "totalIcons") = 0,
            ListField(data, "libraries"))

(* The numbers mediaQueries and containerQueries are read as lists. *)
RenderResponsive(data) ==
    Summary(~HasText(data, "viewport") /\ ListField(data, "mediaQueries") = <<>>,
            ListField(data, "mediaQueries"))

RenderGridSystem(data) ==
    Summary(\A f \in {"displayFlexCount", "displayGridCount", "inlineStyleFlex", "inlineStyleGrid"} :
               CountField(data, f) = 0, <<>>)

(* So are keyframes, cssTransitions and cssAnimations. *)
RenderAnimation(data) ==
    RenderList(ListField(data, "keyframes") \o ListField(data, "cssTransitions")
                 \o ListField(data, "cssAnimations") \o ListField(data, "libs"))

RenderScrollAnimation(data) == RenderList(FirstList(data, <<"libraries", "detected">>))

RenderTransition(data) == RenderList(FirstList(data, <<"sample", "transitions", "detected">>))

(* A metric that was not measured is null. *)
RenderPerformance(data) ==
    Summary(\A m \in PaintMetrics : CountField(data, m) = 0, <<>>)

RenderApisConsumed(data) == RenderList(FirstList(data, <<"endpoints", "detected">>))

RenderDockerKubernetes(data) == RenderList(ListField(data, "docker") \o ListField(data, "kubernetes"))

RenderArchitecture(data) == Summary(~HasText(data, "mode"), FirstList(data, <<"signals", "indicators">>))

RenderCssCustomization(data) ==
    Summary(~HasText(data, "approach"), FirstList(data, <<"customProperties", "variables">>))

RenderLanguage(data) == RenderList(FirstList(data, <<"detected", "languages">>))

RenderResponsiveGridMerged(data) ==
    LET r == RenderResponsive(data.parts["responsive"])
        g == RenderGridSystem(data.parts["grid"])
    IN  Summary(r.empty /\ g.empty, g.values \o r.values)

HumanizeDetectorData(dim, data) ==
    CASE dim = "responsive" /\ {"responsive", "grid"} \subseteq DOMAIN data.parts ->
           RenderResponsiveGridMerged(data)
      [] dim = "responsive" /\ DOMAIN data.parts = {} -> RenderResponsive(data)
      [] dim = "seo" -> RenderSeo(data)
      [] dim = "componentArchitecture" -> RenderComponentArchitecture(data)
      [] dim = "typography" -> RenderTypography(data)
      [] dim = "palette" -> RenderPalette(data)
      [] dim = "designTokens" -> RenderDesignTokens(data)
      [] dim = "icons" -> RenderIcons(data)
      [] dim = "gridSystem" -> RenderGridSystem(data)
      [] dim = "animation" -> RenderAnimation(data)
      [] dim = "scrollAnimation" -> RenderScrollAnimation(data)
      [] dim = "transition" -> RenderTransition(data)
      [] dim = "performance" -> RenderPerformance(data)
      [] dim = "apisConsumed" -> RenderApisConsumed(data)
      [] dim = "dockerKubernetes" -> RenderDockerKubernetes(data)
      [] dim = "architecture" -> RenderArchitecture(data)
      [] dim = "cssCustomization" -> RenderCssCustomization(data)
      [] dim = "language" -> RenderLanguage(data)
      [] OTHER -> RenderDetectedList(data)

(* ReportSection: the body of an opened section. *)
ShowSection(dim, result) ==
    IF result.status = "ok" THEN HumanizeDetectorData(dim, result.data)
    ELSE Summary(FALSE, <<result.status>>)
=============================================================================
