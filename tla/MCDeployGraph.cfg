SPECIFICATION ProjectSpec
CONSTANTS a = a
          b = b
          Name = {a, b}
          Unknown = Unknown
          None = None
          Config <- MCConfig
          Commands <- MCCommands
          MaxCommands <- MCMaxCommands
          MaxFaults <- MCMaxFaults
          Verifier = b
          ZkScenes <- MCZkScenes
          Installs <- MCInstalls
          Proc = {1, 2}
          Bundle <- MCBundle
          Signals <- MCSignals
          User = {u1, u2}
INVARIANTS ProjectTypeOK DependenciesPrecede SearchIsExact ArgsFollow DepsVerified RecordedHash
           WireIsComplete MainnetIsGuarded FrontendFollows RegressionIsCurrent
           VerifiedKeysMatch UpToDateVerifies ToolsAreWhole
PROPERTIES CommandsEnd ImportedStays AdmittedIsAudited
CHECK_DEADLOCK FALSE
