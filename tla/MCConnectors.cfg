\* Every connector against its wallet.
SPECIFICATION ConnectorsSpec
CONSTANTS
    x = x
    y = y
    z = z
    None = None
    Accounts = {a, b, c, g}
    Tabs = {t1, t2}
    Given = g
    SignUps = TRUE
    ReconnectOnMount = TRUE
    Browsers <- MCBrowsers
    Relays <- MCRelays
    Portos <- MCPortos
    Sdks <- MCSdks
    Metas <- MCMetas
    Passkeys <- MCPasskeys
INVARIANTS
    TracksWallet
    StatusIsConnection
    StaysDisconnected
    SignsAsAllowed
    NeverSignsForAnother
PROPERTIES
    ConnectsAsAgreed
    SwitchesEnd
