------------------------------- MODULE Addons -------------------------------
(***************************************************************************)
(* The phases around the gateways: storage (internal/storage), the issuer  *)
(* of certificates (internal/pki), the metrics stack                       *)
(* (internal/observability) and ArgoCD (internal/platform).                *)
(***************************************************************************)
EXTENDS Gateways

\* The registry's copy of an image, where there is a registry.
imageFor(s, image) == <<SystemRegistry(s), image>>

-----------------------------------------------------------------------------
(* Storage.                                                                *)

IsDefaultClass(s) == s.storage.defaultClass # "false"

StorageManifest(s) ==
    [provisioner |-> imageFor(s, "local-path-provisioner"), helper |-> imageFor(s, "busybox"),
     default |-> IsDefaultClass(s)]

\* One apply brings the provisioner and the class.
ProvisionerStep(h, s) ==
    LET step == ManifestStep("provisioner", h, StorageManifest(s), Object("local-path-provisioner")) IN
    [step EXCEPT !.writes = <<Together(@[1], Put(Object("storageclass"), IsDefaultClass(s)))>>]

\* The Check asks for the class, and that it is the default one where it
\* should be; the Do waits for the provisioner only.
StorageReadyStep(h, s) ==
    [WaitStep("storage-ready", h, Object("provisioner-ready"), {Object("local-path-provisioner")}) EXCEPT
     !.present = @ \cup {Object("storageclass")},
     !.finds = IF IsDefaultClass(s) THEN {<<Object("storageclass"), TRUE>>} ELSE {}]

\* The site's own driver: asked for, never installed.
ByoStep(h) ==
    [Step("site-csi", h) EXCEPT !.present = {Object("storageclass")},
                                !.needs = {API, Object("storageclass")}]

UnimplementedStep(h, s) == FailedStep("driver-" \o s.storage.driver, h)

StorageSteps(h, s) ==
    CASE s.storage.driver = "" -> <<>>
      [] s.storage.driver = "local-path" -> <<ProvisionerStep(h, s), StorageReadyStep(h, s)>>
      [] s.storage.driver = "byo-csi" -> <<ByoStep(h)>>
      [] OTHER -> <<UnimplementedStep(h, s)>>

-----------------------------------------------------------------------------
(* The issuer.                                                             *)

Issues(mode) == mode \in {"private-ca", "acme-dns01", "acme-http01"}
WantsCertManager(s) == s.pki.mode \notin {"", "none", "byo-cert"}
WantsTrustBundle(s) == s.pki.clusterBundle = "true" /\ s.pki.mode = "private-ca"

Chart(s, charts, name) == ChartSource(charts[name], s.registry.chartRepo, "upstream")

\* The object the cluster installs a chart from.
HelmChart(id) == <<"cluster", "helmchart", id>>

ChartStep(id, h, chart, values) ==
    ManifestStep(id, h, [chart |-> chart, values |-> values], HelmChart(id))

CertManagerStep(h, s, charts) ==
    ChartStep("cert-manager", h, Chart(s, charts, "cert-manager"),
              <<s.pki.mode = "acme-http01", SystemRegistry(s)>>)

TrustManagerStep(h, s, charts) ==
    ChartStep("trust-manager", h, Chart(s, charts, "trust-manager"), <<>>)

\* A chart's pods run once it can be fetched from where it comes.
ServingNeeds(s, charts, id, name) ==
    {HelmChart(id)} \cup ChartNeeds(Chart(s, charts, name), "upstream")

writeSolver(s) ==
    CASE s.pki.mode = "acme-http01" ->
           {<<namespaceOfGateway(gw), gw.name>> : gw \in GatewaysOf(s)}
      [] OTHER -> {<<a.dnsProvider, a.accessKeyID>> : a \in s.pki.acme}

IssuerManifest(s) ==
    [mode |-> s.pki.mode,
     server |-> {<<Or(a.server, "letsencrypt"), a.email>> :
                 a \in IF s.pki.mode = "private-ca" THEN {} ELSE s.pki.acme},
     solver |-> IF s.pki.mode = "private-ca" THEN {} ELSE writeSolver(s)]

\* The intermediate cert-manager signs with, compared by its fingerprint.
CASecretStep(h, m) ==
    [Step("ca-secret", h) EXCEPT
     !.finds = {<<Object("ca-fingerprint"), m.cert>>}, !.needs = {API},
     !.writes = <<PutAll(Just(Object("ca-secret"), <<m.cert, m.key>>)
                         ++ Just(Object("ca-fingerprint"), m.cert))>>]

acmeSecretName(s) == <<"cluster", "acme-secret", (CHOOSE a \in s.pki.acme : TRUE).dnsProvider>>

\* Compared by its presence alone.
ACMETokenStep(h, s, m) ==
    [Step("acme-credential", h) EXCEPT
     !.present = {acmeSecretName(s)}, !.needs = {API}, !.writes = <<Put(acmeSecretName(s), m.acme)>>]

IssuerReadyStep(h, s, m) ==
    WaitStep("issuer-ready", h, Object("issuer-ready"),
             {Object("issuer"), Object("cert-manager")}
             \cup (IF s.pki.mode = "private-ca" THEN {Object("ca-secret")} ELSE {})
             \cup (IF s.pki.mode = "acme-dns01" /\ m.acme # "" THEN {acmeSecretName(s)} ELSE {}))

TrustBundle == [source |-> "ca-secret", target |-> "ca.crt"]

PkiSteps(h, s, m, charts) ==
    LET chart == <<CertManagerStep(h, s, charts),
                   AcceptsStep("cert-manager-ready", h, "cert-manager",
                               ServingNeeds(s, charts, "cert-manager", "cert-manager"))>>
        issuer == <<ManifestStep("issuer", h, IssuerManifest(s), Object("issuer")),
                    IssuerReadyStep(h, s, m)>>
        bundle == <<TrustManagerStep(h, s, charts),
                    AcceptsStep("trust-manager-ready", h, "trust-manager",
                                ServingNeeds(s, charts, "trust-manager", "trust-manager")),
                    ManifestStep("trust-bundle", h, TrustBundle, Object("trust-bundle"))>>
    IN  IF ~WantsCertManager(s) THEN <<>>
        ELSE IF s.pki.mode = "private-ca" /\ (m.cert = "" \/ m.key = "")
             THEN Append(chart, FailedStep("material", h))
        ELSE chart
             \o When(s.pki.mode = "private-ca", <<CASecretStep(h, m)>>)
             \o When(s.pki.mode = "acme-dns01" /\ m.acme # "", <<ACMETokenStep(h, s, m)>>)
             \o issuer
             \o When(WantsTrustBundle(s), bundle)

-----------------------------------------------------------------------------
(* The metrics stack.                                                      *)

Enabled(s) == s.platform.observability.enabled = "true"
WantsGrafana(s) == s.platform.observability.grafana = "true"
Retention(s) == Or(s.platform.observability.retention, "7d")
StorageSize(s) == Or(s.platform.observability.storageSize, "10Gi")

\* The job that copies dashboards from the internet is off without one.
StackChart(s) ==
    [retention |-> Retention(s), size |-> StorageSize(s), grafana |-> WantsGrafana(s),
     registry |-> SystemRegistry(s), syncJob |-> s.network.mode # "airgap"]

\* Told apart from a wait: a claim no class can serve is never bound.
DatabaseReadyStep(h, s, charts) ==
    WaitStep("metrics-ready", h, Object("vmsingle"),
             ServingNeeds(s, charts, "metrics-stack", "victoria-metrics-k8s-stack")
             \cup {Object("storageclass")})

ObservabilitySteps(h, s, charts) ==
    IF ~Enabled(s) THEN <<>>
    ELSE IF s.platform.observability.stack \notin {"", "victoria-metrics"}
         THEN <<FailedStep("stack", h)>>
    ELSE <<ChartStep("metrics-stack", h, Chart(s, charts, "victoria-metrics-k8s-stack"), StackChart(s)),
           DatabaseReadyStep(h, s, charts)>>

-----------------------------------------------------------------------------
(* ArgoCD.                                                                 *)

repoURL(s) == IF s.platform.gitops.source = "oci" THEN s.platform.gitops.ociRepo
              ELSE s.platform.gitops.gitRepo

\* A repository alone is enough to ask for it.
wanted(s) == \/ s.platform.gitops.enabled = "true"
             \/ s.platform.gitops.enabled = "unset" /\ repoURL(s) # ""

\* The registry's credential, for a repository on the registry's host only.
credentialsFor(repo, t) ==
    IF t.host # "" /\ t.user # "" /\ EndpointHost(repo) = EndpointHost(t.host)
    THEN <<t.user, t.pass>> ELSE <<"", "">>

\* An application per entry.  An OCI one names its chart's version.
Applications(s) ==
    {[app |-> a, repo |-> repoURL(s),
      revision |-> IF s.platform.gitops.source = "oci" THEN "pinned"
                   ELSE Or(s.platform.gitops.branch, "HEAD")] : a \in s.platform.gitops.bootstrapApps}

\* What is wrong with them is found when the phase is put together.
ApplicationsFail(s) ==
    /\ s.platform.gitops.bootstrapApps # {}
    /\ repoURL(s) = "" \/ (s.platform.gitops.source = "oci" /\ "unpinned" \in s.platform.gitops.bootstrapApps)

AvailableStep(h) ==
    WaitStep("argocd-available", h, Object("argocd-available"), {Object("argocd")})

\* The credential is compared, by its fingerprint, and the address is not.
RepoSecretStep(h, s, t) ==
    [Step("repository", h) EXCEPT
     !.finds = {<<Object("repository-credential"), credentialsFor(repoURL(s), t)>>}, !.needs = {API},
     !.writes = <<PutAll(Just(Object("repository"), repoURL(s))
                         ++ Just(Object("repository-credential"), credentialsFor(repoURL(s), t)))>>]

SyncedStep(h, s) ==
    WaitStep("bootstrap-synced", h, Object("synced"),
             {Object("applications"), Object("repository"), Object("argocd-available")})

PlatformSteps(h, s, t, charts) ==
    IF ~wanted(s) THEN <<>>
    ELSE IF ApplicationsFail(s) THEN <<FailedStep("bootstrap-apps", h)>>
    ELSE <<ChartStep("argocd", h, Chart(s, charts, "argo-cd"), SystemRegistry(s)),
           AcceptsStep("argocd-ready", h, "argocd", ServingNeeds(s, charts, "argocd", "argo-cd")),
           AvailableStep(h)>>
         \o When(repoURL(s) # "", <<RepoSecretStep(h, s, t)>>)
         \o When(Applications(s) # {},
                 <<ManifestStep("bootstrap-apps", h, Applications(s), Object("applications")),
                   SyncedStep(h, s)>>)

=============================================================================
