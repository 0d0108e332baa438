CONSTANTS Accounts = {"a", "b"} MaxUserOps = 2 MaxUserMail = 2
SPECIFICATION UsersSpec
INVARIANTS WarningIsRead
CHECK_DEADLOCK FALSE
