SPECIFICATION MenuSpec
CONSTANTS
 a1=a1
 a2=a2
 Apps={a1,a2}
 NoApp=NoApp
 Rows<-MCRows
 TitleLetter<-MCTitleLetter
 RowLetter<-MCRowLetter
 AccLetter<-MCAccLetter
 Marked<-MCMarked
 Exposed={a2}
 MaxAccessories=1
 QueueMax=1
 MaxCalls=2
INVARIANTS MenuSafety
PROPERTIES ChoicesAreTold
CHECK_DEADLOCK FALSE
CONSTRAINT MCFollowed
