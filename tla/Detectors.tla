------------------------------ MODULE Detectors ------------------------------
(***************************************************************************)
(* The thirty detectors of apps/api/src/extract/detectors, each as a        *)
(* function from pages to results. The signature tables keep their names    *)
(* and their order, which decides the order of what is detected.            *)
(***************************************************************************)
EXTENDS DetectorKit

------------------------------------------------------------------------------
(* Tables of signatures *)

CloudSignatures == <<"vercel", "netlify", "aws", "gcp", "azure", "cloudflare-pages",
                     "fly", "render", "heroku", "digitalocean">>
CloudWithoutHeaders == {"cloudflare-pages", "digitalocean"}

CdnSignatures == <<"cloudflare", "fastly", "cloudfront", "akamai", "bunny",
                   "vercel-edge", "netlify", "incapsula">>

AuthSignatures == <<"auth0", "firebase-auth", "supabase", "clerk", "nextauth", "auth.js",
                    "okta", "cognito", "magic-link", "walletconnect", "metamask">>

AnalyticsSignatures == <<"google-analytics", "google-tag-manager", "google-analytics-4",
    "plausible", "fathom", "mixpanel", "amplitude", "posthog", "matomo", "clarity",
    "simpleanalytics", "umami">>

ThirdPartySignatures == <<"stripe", "paypal", "mercadopago", "intercom", "zendesk", "segment",
    "sentry", "datadog", "hotjar", "fullstory", "logrocket", "cloudflare-turnstile",
    "recaptcha", "hcaptcha", "mapbox", "google-maps", "youtube-embed", "vimeo-embed",
    "twilio", "sendgrid">>

ServerSignatures == <<"nginx", "apache", "caddy", "cloudflare", "gunicorn", "uvicorn",
                      "werkzeug", "puma", "unicorn">>
PoweredBySignatures == <<"express", "next.js", "nuxt", "php", "asp.net", "phoenix">>
CookieSignatures == <<"laravel", "rails", "django", "express", "symfony", "java", "asp.net">>
LanguageOf ==
    [n \in {"express", "next.js", "nuxt"} |-> "JavaScript/TypeScript"]
    @@ [n \in {"php", "laravel", "symfony"} |-> "PHP"]
    @@ [n \in {"gunicorn", "uvicorn", "werkzeug", "django"} |-> "Python"]
    @@ [n \in {"puma", "unicorn", "rails"} |-> "Ruby"]
    @@ ("asp.net" :> "C#") @@ ("phoenix" :> "Elixir") @@ ("java" :> "Java")

ProxySignatures == <<"nginx", "apache", "caddy", "traefik", "haproxy", "cloudflare-proxy",
                     "akamai-ghost", "envoy", "gcp-load-balancer">>

DatabaseSignatures == <<"PostgreSQL/Generic session", "MySQL/Generic", "ASP.NET", "Django",
    "Rails", "Laravel", "Express", "NextAuth", "Auth0", "Supabase", "Clerk", "Firebase">>

LibrarySignatures == <<"react", "vue", "svelte", "moment", "dayjs", "luxon", "date-fns",
    "chart.js", "d3", "recharts", "highcharts", "lodash", "axios", "swr", "tanstack-query",
    "rxjs", "immutable", "zod", "yup", "joi", "formik", "react-hook-form">>
SureLibraries == {"react", "vue", "svelte", "chart.js", "highcharts", "react-hook-form"}

RoutingSignatures == <<"react-router", "next.js", "vue-router", "nuxt", "sveltekit",
                       "tanstack-router", "wouter", "reach-router", "gatsby">>
StateSignatures == <<"redux", "redux-toolkit", "zustand", "mobx", "jotai", "recoil",
                     "xstate", "pinia", "vuex", "valtio", "ngrx">>
CssSignatures == <<"tailwind", "bootstrap", "bulma", "tachyons", "foundation">>
DesignSignatures == <<"material-ui", "chakra-ui", "ant-design", "mantine", "radix",
                      "shadcn", "next-ui", "blueprint">>
FrameworkMarkers == <<"next.js", "nuxt", "remix", "gatsby", "sveltekit", "astro",
                      "react", "vue", "angular">>
IconSignatures == <<"lucide", "heroicons", "font-awesome", "material-icons", "feather",
                    "tabler", "phosphor", "react-icons">>
AnimationSignatures == <<"gsap", "framer-motion", "aos", "anime.js", "lottie">>
ScrollSignatures == <<"lenis", "locomotive-scroll", "rellax", "sal.js", "scrollmagic">>
TransitionSignatures == <<"framer-motion-AnimatePresence", "react-transition-group",
                          "react-router-transition", "next-page-transitions">>
RuntimeMarkers == <<"styled-components", "emotion", "stitches", "goober", "vanilla-extract">>
Languages == <<"HTML", "JavaScript", "TypeScript", "CSS", "JavaScript (ESM)", "SCSS",
               "Python (server hint)", "PHP (server hint)", "PHP", "C#">>

------------------------------------------------------------------------------
(* Which technologies a text with a name in it mentions: includes() finds a *)
(* name inside a longer one.                                                 *)
NamesIn(name) ==
    {name} \union CASE name = "react-hook-form" -> {"react"}
                    [] name = "google-analytics-4" -> {"google-analytics"}
                    [] name = "redux-toolkit" -> {"redux"}
                    [] name = "gunicorn" -> {"unicorn"}
                    [] OTHER -> {}

(* The request of these services need not have the service's name in its URL, *)
(* and "request to <url>" is all their evidence says.                          *)
NamelessRequests == {"firebase-auth", "google-analytics", "google-tag-manager", "mixpanel",
    "cloudflare-turnstile", "google-maps", "youtube-embed", "vimeo-embed"}

(* detected[0] ?? null *)
First(names) == IF names = <<>> THEN {} ELSE {Head(names)}

(* The detected list, its first element, and where each was seen. *)
Signalled(names) ==
    Data([detected |-> names, signals |-> names], NoFields, [primary |-> First(names)], NoFields)

------------------------------------------------------------------------------
(* Detectors that go through a signature table *)

CloudPlaces(n) == IF n \in CloudWithoutHeaders THEN <<"script", "network">>
                  ELSE <<"script", "network", "header">>

DetectCloudProvider(page) ==
    LET at(n) == FoundAt(page, "cloudProvider", n, CloudPlaces(n))
        names == Only(CloudSignatures, {n \in ToSet(CloudSignatures) : at(n) # "nowhere"})
    IN  Ok(Signalled(names),
           Map(names, LAMBDA n : Ev(IF at(n) = "header" THEN "medium" ELSE "high", NamesIn(n))))

CdnPlaces(n) ==
    CASE n = "cloudflare" -> <<"script", "network", "header">>
      [] n = "bunny"      -> <<"network">>
      [] n = "incapsula"  -> <<"header">>
      [] OTHER            -> <<"network", "header">>

DetectCdn(page) ==
    LET at(n) == FoundAt(page, "cdn", n, CdnPlaces(n))
        names == Only(CdnSignatures, {n \in ToSet(CdnSignatures) : at(n) # "nowhere"})
    IN  Ok(Signalled(names),
           Map(names, LAMBDA n : Ev(IF at(n) = "header" THEN "medium" ELSE "high", NamesIn(n))))

(* Script, then request, then HTML; only a request hides the name. *)
ScanSources == <<"script", "network", "html">>

ScanEvidence(page, dim, names) ==
    Map(names, LAMBDA n :
        LET at == FoundAt(page, dim, n, ScanSources)
        IN  Ev(IF at = "html" THEN "medium" ELSE "high",
               IF at = "network" /\ n \in NamelessRequests THEN {} ELSE NamesIn(n)))

DetectAuthProvider(page) ==
    LET names == Found(page, "authProvider", AuthSignatures, ScanSources)
    IN  Ok(Signalled(names), ScanEvidence(page, "authProvider", names))

DetectAnalytics(page) ==
    LET names == Found(page, "analytics", AnalyticsSignatures, ScanSources)
    IN  Ok(Data([detected |-> names], NoFields, NoFields, NoFields),
           ScanEvidence(page, "analytics", names))

DetectThirdPartyServices(page) ==
    LET names == Found(page, "thirdPartyServices", ThirdPartySignatures, ScanSources)
    IN  Ok(Data([detected |-> names], NoFields, NoFields, NoFields),
           ScanEvidence(page, "thirdPartyServices", names))

DetectReverseProxy(page) ==
    LET names == Found(page, "reverseProxy", ProxySignatures, <<"header">>)
    IN  Ok(Signalled(names),
           Map(names, LAMBDA n : Ev("high", NamesIn(n))))

DetectLibraries(page) ==
    LET names == Found(page, "libraries", LibrarySignatures, <<"script", "style", "html">>)
    IN  Ok(Data([detected |-> names], NoFields, NoFields, NoFields),
           Map(names, LAMBDA n : Ev(IF n \in SureLibraries THEN "high" ELSE "medium", NamesIn(n))))

DetectStateManagement(page) ==
    LET names == Found(page, "stateManagement", StateSignatures, <<"script", "html">>)
    IN  Ok(Data([detected |-> names], NoFields, [primary |-> First(names)], NoFields),
           Map(names, LAMBDA n : Ev("medium", NamesIn(n))))

RoutingStrategy(page, names) ==
    CASE names # <<>> ->
           IF ToSet(names) \intersect {"next.js", "nuxt", "sveltekit", "gatsby"} # {}
           THEN "file-based" ELSE "config-based"
      [] OTHER -> IF Hit(page, "html", "routing", "history-api") THEN "history-api"
                  ELSE IF Hit(page, "url", "routing", "hash") THEN "hash" ELSE "unknown"

DetectRouting(page) ==
    LET names == Found(page, "routing", RoutingSignatures, <<"script", "html">>)
        strategy == RoutingStrategy(page, names)
    IN  Ok(Data([detected |-> names], NoFields,
                [primary |-> First(names), strategy |-> {strategy}], NoFields),
           Map(names, LAMBDA n : Ev("high", NamesIn(n)))
             \o When(strategy = "history-api", Ev("medium", {})))

DetectCssFramework(page) ==
    LET names == Found(page, "cssFramework", CssSignatures, <<"html">>)
    IN  Ok(Data([detected |-> names], NoFields, [primary |-> First(names)], NoFields),
           Map(names, LAMBDA n : Ev("medium", {n})))

(* The only table detector that says nothing of where it found a name. *)
DetectDesignSystem(page) ==
    LET names == Found(page, "designSystem", DesignSignatures, <<"html">>)
    IN  Ok(Data([detected |-> names], NoFields, NoFields, NoFields), <<>>)

(* One piece of evidence per match of a header; its text holds the whole    *)
(* header, so it names every technology the header matches.                  *)
DetectBackendFramework(page) ==
    LET dim == "backendFramework"
        servers == Found(page, dim, ServerSignatures, <<"server">>)
        powered == Found(page, dim, PoweredBySignatures, <<"powered-by">>)
        cookies == Found(page, dim, CookieSignatures, <<"cookie">>)
        names == servers \o powered \o Only(cookies, ToSet(cookies) \ ToSet(powered))
        server == servers # <<>> \/ Hit(page, "server", dim, "other")
        poweredBy == powered # <<>> \/ Hit(page, "powered-by", dim, "other")
        languages == {LanguageOf[n] : n \in ToSet(names) \intersect DOMAIN LanguageOf}
    IN  Ok(Data([detected |-> names, language |-> SetToSeq(languages)], NoFields,
                [primary |-> First(names), server |-> Text(server, "server"),
                 poweredBy |-> Text(poweredBy, "by")], NoFields),
           Map(servers, LAMBDA n : Ev("high", ToSet(servers)))
             \o Map(powered, LAMBDA n : Ev("high", ToSet(powered)))
             \o Map(cookies, LAMBDA n : Ev("medium", {n}))
             \o When(names = <<>> /\ server, Ev("low", {})))

DetectDatabaseIndicators(page) ==
    LET names == Found(page, "databaseIndicators", DatabaseSignatures, <<"cookie">>)
        anyCookie == /\ \E m \in page.marks : m[1] = "cookie"
                     /\ ~Hit(page, "header", "page", "set-cookie")
    IN  Ok(Data([detected |-> names, cookies |-> names], NoFields, NoFields, NoFields),
           Map(names, LAMBDA n : Ev("medium", {n})) \o When(anyCookie, Ev("low", {})))
=============================================================================
