---------------------------- MODULE MCAlgorithms ----------------------------
(***************************************************************************)
(* The sequential algorithms on all their bounded inputs: a behaviour      *)
(* draws one input of one of them and stops.                               *)
(***************************************************************************)
EXTENDS PolicyRepository, RegistryPaths, SbomDocuments, SbomService, StaticScan

\* One disjunct for each algorithm.
Next ==
    \/ Draw("deps.dev", DepsDevInputs)
    \/ Draw("scorecard", ScorecardInputs)
    \/ Draw("ioc", IocInputs)
    \/ Draw("path", NpmAsks) \/ Draw("path", PypiAsks) \/ Draw("path", CargoAsks) \/ Draw("path", MavenAsks)
    \/ Draw("cargo", CargoFetches)
    \/ Draw("vex", VexInputs)
    \/ Draw("twins", EvidenceTwins) \/ Draw("twins", DecisionTwins)
    \/ Draw("twins", OverrideTwins) \/ Draw("twins", SignalTwins)
    \/ Draw("lockfile", LockfileInputs)
    \/ Draw("scan", ScanInputs) \/ Draw("scan", ActionScanInputs) \/ Draw("scan", ExtensionScanInputs)
    \/ Draw("preflight", PreflightInputs)
    \/ Draw("cargo manifest", CargoManifests)
    \/ Draw("artifact", ArtifactInputs) \/ Draw("artifact", CrateInputs)
    \/ \E k \in DOMAIN ManifestOf : Draw("artifact", ManifestInputs(k))
    \/ Draw("sbom service", SbomRequests) \/ Draw("sbom service", SbomJobRequests)
    \/ Draw("sbom", PackageLockSboms) \/ Draw("sbom", LegacySboms) \/ Draw("sbom", MavenSboms)
    \/ Draw("sbom", PnpmSboms) \/ Draw("sbom", CargoSboms) \/ Draw("sbom", RequirementsSboms)
    \/ Draw("sbom", ImageSboms) \/ Draw("sbom", DecidedSboms)

Spec == SampleInit /\ [][Next]_sample
=============================================================================
