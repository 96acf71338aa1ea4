---------------------------- MODULE PageDetectors ----------------------------
(***************************************************************************)
(* The detectors that measure a page instead of looking up a table, and the *)
(* registry that runs all thirty.                                           *)
(***************************************************************************)
EXTENDS Detectors

EvWhen(page, place, dim, what, confidence) ==
    When(Hit(page, place, dim, what), Ev(confidence, {}))

Tagged(page, dim, table) == Found(page, dim, table, <<"html">>)
MarkerEvidence(names) == Map(names, LAMBDA n : Ev("medium", {n}))

------------------------------------------------------------------------------
ServerRendered == {"astro", "gatsby", "next.js", "nuxt", "sveltekit", "remix"}

DetectComponentArchitecture(page) ==
    LET markers == Tagged(page, "componentArchitecture", FrameworkMarkers)
        hydration == CASE markers = <<>> -> "unknown"
                       [] ToSet(markers) \intersect ServerRendered # {} -> "ssr"
                       [] OTHER -> "spa"
    IN  Ok(Data([markers |-> markers, versionHints |-> <<>>], NoFields,
                [framework |-> First(markers), hydration |-> {hydration}], NoFields),
           MarkerEvidence(markers))

(* Requests a page made: xhr or fetch to a GraphQL path, answered with JSON, *)
(* to a REST-like path or to another one, and everything else.                *)
GraphqlCall(page) == Hit(page, "request", "page", "graphql")
JsonCall(page)    == Hit(page, "request", "page", "json")
RestCall(page)    == JsonCall(page) \/ Hit(page, "request", "page", "rest")
PlainCall(page)   == Hit(page, "request", "page", "call")
AnyCall(page)     == GraphqlCall(page) \/ RestCall(page) \/ PlainCall(page)
AnyRequest(page)  == \E m \in page.marks : m[1] \in {"request", "network"}

DetectApisConsumed(page) ==
    LET client == Hit(page, "html", "apisConsumed", "apollo")
        calls == When(GraphqlCall(page), "graphql") \o When(RestCall(page), "rest")
                   \o When(PlainCall(page), "call")
    IN  Ok(Data([endpoints |-> calls, restHosts |-> When(RestCall(page), "host"),
                 graphqlEndpoints |-> When(GraphqlCall(page), "graphql")],
                [restCount |-> IF RestCall(page) THEN 1 ELSE 0,
                 graphqlCount |-> Count(page, "request", "page", "graphql")
                                    + Count(page, "html", "apisConsumed", "apollo"),
                 totalRequests |-> IF AnyRequest(page) THEN 1 ELSE 0],
                NoFields, NoFields),
           EvWhen(page, "request", "page", "graphql", "high")
             \o EvWhen(page, "request", "page", "json", "high")
             \o EvWhen(page, "request", "page", "rest", "medium")
             \o EvWhen(page, "request", "page", "call", "low")
             \o EvWhen(page, "html", "apisConsumed", "apollo", "high"))

Renderings == <<"ssg", "isr", "ssr", "spa">>

Rendering(page) ==
    LET marked == Only(Renderings,
                       {r \in ToSet(Renderings) : Hit(page, "html", "architecture", r)})
    IN  CASE marked # <<>> -> Head(marked)
          [] OTHER -> IF Hit(page, "meta", "page", "title") \/ Hit(page, "meta", "page", "lang")
                      THEN "mpa" ELSE "unknown"

(* data.evidence repeats the evidence, so a page with any has a signal. A    *)
(* request of any kind to a GraphQL path counts here.                         *)
DetectArchitecture(page) ==
    LET rendering == Rendering(page)
        graphql == GraphqlCall(page) \/ Hit(page, "network", "page", "graphql")
        rest == RestCall(page) \/ PlainCall(page)
        apiStyle == CASE graphql /\ rest -> "mixed"
                      [] graphql -> "graphql"
                      [] OTHER -> IF rest THEN "rest" ELSE "unknown"
        evidence == When(rendering # "unknown",
                         Ev(IF rendering \in {"ssg", "isr"} THEN "high" ELSE "medium", {}))
                    \o When(graphql, Ev("high", {})) \o When(rest, Ev("medium", {}))
        manyHosts == Hit(page, "request", "page", "many-hosts")
    IN  Ok(Data([signals |-> When(rendering \notin {"mpa", "unknown"}, rendering)
                               \o When(manyHosts, "hosts"),
                 evidence |-> Map(evidence, LAMBDA e : e.confidence)],
                NoFields,
                [rendering |-> {rendering}, apiStyle |-> {apiStyle},
                 monolith |-> {CASE ~AnyRequest(page) -> "unknown"
                                 [] manyHosts -> "distributed"
                                 [] OTHER -> "monolith"}],
                NoFields),
           evidence)

------------------------------------------------------------------------------
(* What the text of a language's evidence names. A script tag is not called *)
(* JavaScript in it, and X-Powered-By: ASP.NET does not say C#.              *)
LanguageNames(lang) ==
    CASE lang = "HTML" -> {"HTML"}
      [] lang \in {"TypeScript", "Python (server hint)"} -> {"HTML"}
      [] lang = "CSS"  -> {"CSS", "HTML"}
      [] lang = "SCSS" -> {"CSS", "SCSS"}
      [] lang = "PHP (server hint)" -> {"PHP", "HTML"}
      [] lang = "PHP" -> {"PHP"}
      [] OTHER -> {}

DetectLanguage(page) ==
    LET names == Found(page, "language", Languages, <<"html", "script", "style", "powered-by">>)
    IN  Ok(Data([detected |-> names, indicators |-> names], NoFields,
                [primary |-> First(names)], NoFields),
           Map(names, LAMBDA n : Ev("high", LanguageNames(n))))

DetectSeo(page) ==
    LET meta(what) == Hit(page, "meta", "page", what)
        og == Count(page, "meta", "seo", "og")
    IN  Ok(Data(NoFields,
                [openGraph |-> og, twitter |-> Count(page, "meta", "seo", "twitter"),
                 jsonLd |-> Count(page, "html", "seo", "json-ld")],
                [title |-> Text(meta("title"), "title"),
                 description |-> Text(meta("description"), "description"),
                 canonical |-> Text(meta("canonical"), "canonical"),
                 robots |-> Text(meta("robots"), "robots")],
                [hasSitemap |-> Hit(page, "link", "seo", "sitemap"),
                 hasRobotsTxt |-> Hit(page, "network", "seo", "robots.txt")]),
           EvWhen(page, "meta", "page", "title", "medium")
             \o EvWhen(page, "meta", "page", "description", "medium")
             \o EvWhen(page, "meta", "seo", "og", "medium"))

PaintMetrics == {"firstPaint", "firstContentfulPaint", "domContentLoaded", "load"}

DetectPerformance(page) ==
    LET timing(m) == Count(page, "timing", "performance", m)
        preloads == Count(page, "link", "performance", "preload")
    IN  Ok(Data(NoFields,
                [firstPaint |-> timing("firstPaint"),
                 firstContentfulPaint |-> timing("firstContentfulPaint"),
                 domContentLoaded |-> timing("domContentLoaded"), load |-> timing("load"),
                 totalRequests |-> IF AnyRequest(page) THEN 1 ELSE 0,
                 preloads |-> preloads,
                 preconnects |-> Count(page, "link", "performance", "preconnect"),
                 totalImages |-> Count(page, "html", "page", "image")],
                NoFields, NoFields),
           EvWhen(page, "timing", "performance", "firstContentfulPaint", "medium")
             \o When(AnyRequest(page), Ev("medium", {})) \o When(preloads > 0, Ev("medium", {})))

------------------------------------------------------------------------------
DetectTypography(page) ==
    LET families == When(Hit(page, "style", "typography", "family"), "family")
        size == Hit(page, "style", "typography", "size")
    IN  Ok(Data([families |-> families, weights |-> When(size, "400"),
                 scale |-> When(Hit(page, "style", "typography", "heading"), "h1")],
                NoFields, [baseSize |-> Text(size, "16px")], NoFields),
           Map(families, LAMBDA f : Ev("medium", {})) \o When(size, Ev("medium", {})))

DetectPalette(page) ==
    LET colours(kind) == When(Hit(page, "style", "palette", kind), kind)
    IN  Ok(Data([backgroundColors |-> colours("background"), textColors |-> colours("text"),
                 borderColors |-> colours("border")], NoFields, NoFields, NoFields),
           Map(colours("background") \o colours("text"), LAMBDA c : Ev("medium", {})))

DetectDesignTokens(page) ==
    LET props == When(Hit(page, "html", "page", "custom-property"), "--x")
    IN  Ok(Data([customProperties |-> props], [groups |-> Len(props)],
                [namingConvention |-> {IF props = <<>> THEN "unknown" ELSE "kebab"}], NoFields),
           Map(props, LAMBDA p : Ev("medium", {})))

DetectCssCustomization(page) ==
    LET custom == When(Hit(page, "html", "page", "custom-property"), "--x")
        runtime == Tagged(page, "cssCustomization", RuntimeMarkers)
    IN  Ok(Data([customProperties |-> custom, cssInJsRuntime |-> runtime],
                [cssInJsSerialized |-> Count(page, "html", "cssCustomization", "style-property"),
                 overrideCount |-> Count(page, "html", "cssCustomization", "root")],
                NoFields, NoFields),
           Map(custom, LAMBDA p : Ev("medium", {})) \o MarkerEvidence(runtime))

DetectIcons(page) ==
    LET libraries == Tagged(page, "icons", IconSignatures)
        svg == Count(page, "html", "icons", "svg")
    IN  Ok(Data([libraries |-> libraries],
                [inlineSvgCount |-> svg,
                 totalIcons |-> svg + (IF "font-awesome" \in ToSet(libraries) THEN 1 ELSE 0)],
                NoFields, NoFields),
           MarkerEvidence(libraries) \o When(svg > 0, Ev("medium", {})))

DetectAnimation(page) ==
    LET libs == Tagged(page, "animation", AnimationSignatures)
        transitions == Hit(page, "html", "page", "css-transition")
    IN  Ok(Data([libs |-> libs],
                [keyframes |-> Count(page, "html", "animation", "keyframes"),
                 cssTransitions |-> IF transitions THEN 1 ELSE 0,
                 cssAnimations |-> Count(page, "html", "animation", "css-animation")],
                NoFields, NoFields),
           EvWhen(page, "html", "animation", "keyframes", "medium")
             \o When(transitions, Ev("medium", {})) \o MarkerEvidence(libs))

DetectScrollAnimation(page) ==
    LET libs == Tagged(page, "scrollAnimation", ScrollSignatures)
        scroll == Hit(page, "html", "scrollAnimation", "data-scroll")
        observer == Hit(page, "script", "scrollAnimation", "observer")
    IN  Ok(Data([libs |-> libs], NoFields, NoFields,
                [hasDataScroll |-> scroll, hasIntersectionObserver |-> observer]),
           MarkerEvidence(libs) \o When(scroll, Ev("medium", {})) \o When(observer, Ev("medium", {})))

DetectTransition(page) ==
    Ok(Data([libs |-> Tagged(page, "transition", TransitionSignatures)],
            [cssTransitionCount |-> Count(page, "html", "page", "css-transition")], NoFields,
            [viewTransitionsApi |-> Hit(page, "html", "transition", "view-transitions")]),
       <<>>)

DetectResponsive(page) ==
    LET viewport == Hit(page, "meta", "page", "viewport")
    IN  Ok(Data(NoFields,
                [mediaQueries |-> Count(page, "html", "responsive", "media"),
                 containerQueries |-> Count(page, "html", "responsive", "container")],
                [viewport |-> Text(viewport, "viewport")], NoFields),
           When(viewport, Ev("medium", {})) \o EvWhen(page, "html", "responsive", "media", "medium")
             \o EvWhen(page, "html", "responsive", "container", "medium"))

DetectGridSystem(page) ==
    LET inline(kind) == Count(page, "html", "gridSystem", kind)
        flex == IF Hit(page, "style", "gridSystem", "flex") THEN 1 ELSE inline("inline-flex")
        grid == IF Hit(page, "style", "gridSystem", "grid") THEN 1 ELSE inline("inline-grid")
    IN  Ok(Data(NoFields,
                [displayFlexCount |-> flex, displayGridCount |-> grid,
                 inlineStyleFlex |-> inline("inline-flex"),
                 inlineStyleGrid |-> inline("inline-grid")], NoFields, NoFields),
           When(flex > 0, Ev("medium", {})) \o When(grid > 0, Ev("medium", {})))

(* No header is a Docker header: the list of patterns is empty. *)
DetectDockerKubernetes(page) ==
    LET health == Hit(page, "network", "dockerKubernetes", "healthz")
        docker == Hit(page, "network", "dockerKubernetes", "docker")
        k8s == Hit(page, "network", "dockerKubernetes", "kubernetes")
    IN  Ok(Data([docker |-> When(docker, "docker"),
                 kubernetes |-> When(health, "healthz") \o When(k8s, "url")],
                NoFields, NoFields, NoFields),
           When(health, Ev("high", {})) \o When(docker, Ev("medium", {}))
             \o When(k8s, Ev("high", {})))

------------------------------------------------------------------------------
(* The order of the registry is the order of the report. *)
DetectorList == <<"cssFramework", "cssCustomization", "designSystem", "typography",
    "responsive", "gridSystem", "animation", "scrollAnimation", "transition", "seo",
    "performance", "componentArchitecture", "designTokens", "palette", "icons",
    "backendFramework", "language", "libraries", "stateManagement", "routing",
    "authProvider", "apisConsumed", "thirdPartyServices", "analytics", "cdn",
    "cloudProvider", "reverseProxy", "databaseIndicators", "dockerKubernetes", "architecture">>

Detect(dim, page) ==
    CASE dim = "cssFramework" -> DetectCssFramework(page)
      [] dim = "cssCustomization" -> DetectCssCustomization(page)
      [] dim = "designSystem" -> DetectDesignSystem(page)
      [] dim = "typography" -> DetectTypography(page)
      [] dim = "responsive" -> DetectResponsive(page)
      [] dim = "gridSystem" -> DetectGridSystem(page)
      [] dim = "animation" -> DetectAnimation(page)
      [] dim = "scrollAnimation" -> DetectScrollAnimation(page)
      [] dim = "transition" -> DetectTransition(page)
      [] dim = "seo" -> DetectSeo(page)
      [] dim = "performance" -> DetectPerformance(page)
      [] dim = "componentArchitecture" -> DetectComponentArchitecture(page)
      [] dim = "designTokens" -> DetectDesignTokens(page)
      [] dim = "palette" -> DetectPalette(page)
      [] dim = "icons" -> DetectIcons(page)
      [] dim = "backendFramework" -> DetectBackendFramework(page)
      [] dim = "language" -> DetectLanguage(page)
      [] dim = "libraries" -> DetectLibraries(page)
      [] dim = "stateManagement" -> DetectStateManagement(page)
      [] dim = "routing" -> DetectRouting(page)
      [] dim = "authProvider" -> DetectAuthProvider(page)
      [] dim = "apisConsumed" -> DetectApisConsumed(page)
      [] dim = "thirdPartyServices" -> DetectThirdPartyServices(page)
      [] dim = "analytics" -> DetectAnalytics(page)
      [] dim = "cdn" -> DetectCdn(page)
      [] dim = "cloudProvider" -> DetectCloudProvider(page)
      [] dim = "reverseProxy" -> DetectReverseProxy(page)
      [] dim = "databaseIndicators" -> DetectDatabaseIndicators(page)
      [] dim = "dockerKubernetes" -> DetectDockerKubernetes(page)
      [] dim = "architecture" -> DetectArchitecture(page)
=============================================================================
