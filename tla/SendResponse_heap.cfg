CONSTANTS
  Factory <- MCFactory
  Request <- MCRequest
  Content <- MCContent
  Body <- MCBody
  MaxFrame = 2
  MaxQueue = 2
SPECIFICATION ResponseSpec
INVARIANTS ResponseTypeOK TypeOK CleansUp CountsDown NothingElseLeft HandlesItsOwn TellsTheDocument AnswersAsStated
PROPERTIES KeepsFetchPromise
