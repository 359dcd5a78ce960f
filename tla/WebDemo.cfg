SPECIFICATION ConsoleSpec
CONSTANTS
    t1 = t1
    t2 = t2
    admin = admin
    ann = ann
    None = None
    Tabs <- TwoTabs
    Mails <- TwoMails
    Registered <- Ann
    DemoMails <- Admin
    MaxRequests = 2
PROPERTIES
    DemoOnlyWhenDown
