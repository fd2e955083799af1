\* A save of two Bicep files or of one native Terraform file, with a late request and a
\* foreign edit, or two saves of one native file, by two tabs.
SPECIFICATION Spec
CONSTANTS
    b1 = b1  b2 = b2  t1 = t1  t2 = t2  f1 = f1  f2 = f2  e1 = e1
    NoTxn = NoTxn
    NoFile = NoFile
    Tabs = {b1, b2}
    Edits = {e1}
    MaxGen = 2
    Workspaces <- AllKinds
SYMMETRY Symmetry
INVARIANTS TypeOK NoUnaccountedBytes CommittedWasOnDisk ToldTheTruth
PROPERTIES SavesKeepForeignBytes NativeRecoveryKeepsForeignBytes
