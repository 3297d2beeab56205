SPECIFICATION ProjectSpec
CONSTANTS a = a
          b = b
          Name = {a, b}
          Unknown = Unknown
          None = None
          Config <- MCHookConfig
          Commands <- MCHookCommands
          MaxCommands <- MCHookBound
          MaxFaults <- MCHookFaults
          Verifier = b
          ZkScenes <- MCHookScenes
          Installs <- MCHookInstalls
          Proc = {1, 2}
          Bundle <- MCBundle
          Signals <- MCSignals
          User = {u1, u2}
INVARIANT HooksGetTheirIds
CHECK_DEADLOCK FALSE
