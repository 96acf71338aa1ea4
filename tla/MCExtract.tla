------------------------------ MODULE MCExtract ------------------------------
(* The pages and the broken detectors TLC tries. *)
EXTENDS Extract

At(places, dim, names) == {<<p, dim, n>> : p \in places, n \in names}

Sources == {"script", "network", "html"}

(* Where a page can be beyond a limit. The detectors cut what they return of *)
(* custom properties and fonts, so there are never too many of those.         *)
Beyond ==
    At({"many"}, "page", (DOMAIN SchemaMax \ DOMAIN TakenFrom) \union {"headings", "error"})
      \union {<<"many", d, "evidence">> : d \in {"apisConsumed", "dockerKubernetes"}}
      \union At({"long"}, "page", EvidenceFields \union {"title", "finalUrl", "location"})
      \union {<<"text", "page", "split-pair">>}

(* What a page can show of each dimension; a few names where a table is long. *)
DimensionMarks ==
    <<At({"script", "network"}, "cloudProvider", {"vercel", "cloudflare-pages"})
        \union At({"header"}, "cloudProvider", {"netlify", "aws"}),
      At({"network", "header"}, "cdn", {"fastly", "cloudfront"})
        \union At({"header"}, "cdn", {"incapsula", "cloudflare"}),
      At(Sources, "authProvider", {"auth0", "firebase-auth", "clerk"}),
      At(Sources, "analytics", {"google-analytics", "google-analytics-4", "plausible"}),
      At(Sources, "thirdPartyServices", {"stripe", "google-maps", "sentry"}),
      At({"header"}, "reverseProxy", {"nginx", "envoy", "cloudflare-proxy"}),
      At({"script", "style", "html"}, "libraries", {"react", "react-hook-form", "lodash", "moment"}),
      At({"script", "html"}, "stateManagement", {"redux", "redux-toolkit", "jotai"}),
      At({"script", "html"}, "routing", {"react-router", "next.js"})
        \union {<<"html", "routing", "history-api">>, <<"url", "routing", "hash">>},
      At({"html"}, "cssFramework", ToSet(CssSignatures)),
      At({"html"}, "designSystem", {"radix", "shadcn", "mantine"}),
      At({"server"}, "backendFramework", {"nginx", "gunicorn", "unicorn", "other"})
        \union At({"powered-by"}, "backendFramework", {"express", "php", "asp.net", "other"})
        \union At({"cookie"}, "backendFramework", {"express", "laravel", "java"}),
      At({"cookie"}, "databaseIndicators", {"Django", "Supabase", "NextAuth"})
        \union {<<"header", "page", "set-cookie">>},
      At({"html"}, "componentArchitecture", {"next.js", "react", "astro", "angular"}),
      At({"html"}, "architecture", {"ssg", "isr", "ssr", "spa"}),
      At({"html"}, "language", {"HTML", "TypeScript", "CSS"})
        \union At({"script"}, "language", {"JavaScript", "JavaScript (ESM)"})
        \union At({"style"}, "language", {"SCSS"})
        \union At({"powered-by"}, "language", {"PHP", "C#"}),
      At({"html"}, "icons", {"lucide", "font-awesome", "svg"}),
      At({"html"}, "animation", {"gsap", "lottie", "keyframes", "css-animation"})
        \union {<<"html", "page", "css-transition">>},
      At({"html"}, "scrollAnimation", {"lenis", "locomotive-scroll"})
        \union {<<"script", "scrollAnimation", "observer">>},
      At({"html"}, "transition", {"next-page-transitions", "view-transitions"}),
      At({"html"}, "cssCustomization", {"emotion", "goober", "root", "style-property"})
        \union {<<"html", "page", "custom-property">>},
      At({"style"}, "typography", {"family", "size", "heading"}),
      At({"style"}, "palette", {"background", "text", "border"}),
      At({"html"}, "responsive", {"media", "container"})
        \union At({"html"}, "gridSystem", {"inline-flex", "inline-grid"})
        \union At({"style"}, "gridSystem", {"flex", "grid"})
        \union {<<"meta", "page", "viewport">>},
      At({"network"}, "dockerKubernetes", {"healthz", "docker", "kubernetes"}),
      At({"html", "network"}, "cms", {"WordPress", "Sanity"}),
      At({"request"}, "page", {"graphql", "json", "rest", "call", "many-hosts"})
        \union {<<"html", "apisConsumed", "apollo">>, <<"network", "page", "graphql">>,
                <<"network", "seo", "robots.txt">>},
      At({"meta"}, "page", {"title", "description", "lang", "canonical", "robots"})
        \union {<<"meta", "seo", "og">>, <<"meta", "seo", "twitter">>,
                <<"html", "seo", "json-ld">>, <<"link", "seo", "sitemap">>},
      At({"timing"}, "performance", {"firstPaint", "firstContentfulPaint"})
        \union At({"link"}, "performance", {"preload", "preconnect"}),
      At({"html"}, "page", {"image", "image-without-alt", "skipped-heading"})
        \union {<<"link", "page", "manifest">>, <<"script", "page", "service-worker">>},
      At({"header"}, "page", {"content-security-policy", "strict-transport-security"})
        \union {<<"url", "page", "https">>},
      Beyond>>

(* A pattern of one name that matches only where another one does too. *)
Implied ==
    {<<<<"server", "backendFramework", "nginx">>, <<"header", "reverseProxy", "nginx">>>>,
     <<<<"header", "reverseProxy", "nginx">>, <<"server", "backendFramework", "nginx">>>>,
     <<<<"server", "backendFramework", "gunicorn">>, <<"server", "backendFramework", "unicorn">>>>,
     <<<<"cookie", "backendFramework", "express">>, <<"cookie", "databaseIndicators", "Express">>>>,
     <<<<"cookie", "backendFramework", "laravel">>, <<"cookie", "databaseIndicators", "Laravel">>>>,
     <<<<"cookie", "backendFramework", "java">>, <<"cookie", "databaseIndicators", "MySQL/Generic">>>>,
     <<<<"cookie", "databaseIndicators", "Django">>, <<"cookie", "backendFramework", "django">>>>,
     <<<<"header", "cloudProvider", "netlify">>, <<"header", "cdn", "netlify">>>>,
     <<<<"header", "cdn", "cloudfront">>, <<"header", "cloudProvider", "aws">>>>,
     <<<<"script", "analytics", "google-analytics-4">>, <<"script", "analytics", "google-analytics">>>>,
     <<<<"many", "apisConsumed", "evidence">>, <<"request", "page", "call">>>>,
     <<<<"many", "page", "publicEndpoints">>, <<"request", "page", "call">>>>,
     <<<<"long", "page", "publicEndpoints">>, <<"request", "page", "call">>>>,
     <<<<"many", "dockerKubernetes", "evidence">>, <<"network", "dockerKubernetes", "docker">>>>,
     <<<<"many", "page", "manifests">>, <<"link", "page", "manifest">>>>,
     <<<<"long", "page", "manifests">>, <<"link", "page", "manifest">>>>,
     <<<<"many", "page", "serviceWorkers">>, <<"script", "page", "service-worker">>>>,
     <<<<"long", "page", "serviceWorkers">>, <<"script", "page", "service-worker">>>>,
     <<<<"long", "page", "cssVariables">>, <<"html", "page", "custom-property">>>>,
     <<<<"long", "page", "fonts">>, <<"style", "typography", "family">>>>,
     <<<<"long", "page", "title">>, <<"meta", "page", "title">>>>,
     <<<<"html", "page", "image-without-alt">>, <<"html", "page", "image">>>>,
     <<<<"html", "scrollAnimation", "locomotive-scroll">>, <<"html", "scrollAnimation", "data-scroll">>>>}

PageOf(marks) == [marks |-> marks \union {i[2] : i \in {j \in Implied : j[1] \in marks}}]

(* A page with something in every dimension and nothing the schema refuses. *)
FullPage ==
    PageOf(UNION ({DimensionMarks[i] : i \in 1..(Len(DimensionMarks) - 1)})
             \ {<<"header", "page", "set-cookie">>})

MCInputs ==
    {<<PageOf(ms), {}>> :
        ms \in UNION {kSubset(k, DimensionMarks[i]) :
                        k \in 0..3, i \in 1..(Len(DimensionMarks) - 1)}}
    \union {<<PageOf({m, n}), {}>> : m, n \in Beyond}
    \union {<<PageOf(FullPage.marks \union {m}), {}>> : m \in Beyond}
    \union {<<FullPage, {}>>, <<FullPage, {"responsive", "gridSystem"}>>}
    \union {<<p, {d}>> : d \in ToSet(DetectorList),
                         p \in {FullPage, [marks |-> {<<"many", "page", "error">>}]}}
    \union {<<PageOf({m}), {d}>> :
                m \in {<<"long", "page", "cssVariables">>, <<"long", "page", "fonts">>,
                       <<"many", "apisConsumed", "evidence">>,
                       <<"many", "dockerKubernetes", "evidence">>},
                d \in {"designTokens", "typography", "apisConsumed", "dockerKubernetes"}}
=============================================================================
