SPECIFICATION FairSpec
CONSTANTS
  Requests = {initialize, list, call}
  Answerable = {initialize, list}
  Initialize = initialize
  MaxUpsets = 2
  None = None
PROPERTIES AnsweredOnce EveryoneAnswered CatalogueAnswers DetachEnds
CHECK_DEADLOCK FALSE
