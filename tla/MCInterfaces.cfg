SPECIFICATION Spec
CONSTANTS
    None = None
    UA = UA
INVARIANTS QueuesSound ProduceSafe CallsSound SaslSafe SettingsSound  LifecycleSound
PROPERTIES InterfacesProgress
CHECK_DEADLOCK FALSE
