SPECIFICATION FairSpec
CONSTANTS
  t1 = t1
  t2 = t2
  Threads = {t1, t2}
  Stored <- OneThread
  Contended <- OtherThread
  NoThread = NoThread
  Platform = "bitbucket"
  MaxFaults = 1
INVARIANTS TypeOK NeverAnswersItself FinalAnswerCloses AnsweredUnlessMarked LinkedLessonsKept
PROPERTY FinalAnswerGetsClosed
