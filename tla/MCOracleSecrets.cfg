SPECIFICATION Spec
CONSTANTS
    Threads = {t1, t2}
    Names = {n1, n2}
    Inputs <- MCInputs
    Paths <- MCPaths
    Wallets <- MCWallets
    None = None
INVARIANTS
    TypeOK
    StoredSecretsLogIn
    WalletUntilReplaced
